---------------------------- MODULE Spec2Model ----------------------------
(***************************************************************************)
(* A model of the confession bot: the message-stream supervisor            *)
(* (listenForMessages), the command handlers (/guess, /confess, /shh), the *)
(* group enrollment of direct-message senders, the game store kept in     *)
(* src/game.json, and the start of the process (part_000, offsite.ts).     *)
(*                                                                         *)
(* Two builds of the listener are modelled, selected by `variant`:         *)
(*   "stream"  src/src/stream.ts, lines 582-1006 (one group, guess limit)  *)
(*   "part1"   src/unnamed/part_001 (two groups, hasActiveGame gate)       *)
(*                                                                         *)
(* Strings are sequences of one-character strings, so that trim,           *)
(* toLowerCase, startsWith, lastIndexOf and replace are computed.          *)
(***************************************************************************)
EXTENDS Integers, Sequences, FiniteSets, TLC

VARIABLES
    variant,     \* which build runs: "stream" or "part1"
    pc,          \* position of listenForMessages
    retryCount,  \* let retryCount
    store,       \* gameData.questions as persisted in src/game.json
    members,     \* inbox ids in each group (transport state)
    last,        \* the message most recently taken from the stream
    eff,         \* the external calls made while handling `last`, in order
    sleeps,      \* milliseconds slept since the latest attempt to open the stream
    stream,      \* the latest stream: "none", "open", "flowing", "clean", "error"
    openFails,   \* attempts to open the stream that failed in a row
    now,         \* the clock new Date() reads
    body,        \* the iterations of the for-await loop whose body is running
    trace,       \* for each external call made so far, the number of its message
    seq,         \* messages taken from the stream so far
    env,         \* process.env, for the three variables main asks for
    boot,        \* position of the process: "load", "main", ..., "listening", "exited"
    exitStatus,  \* the status the process ended with, 0 while it runs
    output,      \* what the process wrote when it ended
    client,      \* Client.create has resolved
    convs,       \* what client.conversations.list() returns, in order
    groups,      \* baseSummitGroups: the place in convs of each group, 0 for none
    runs         \* times the process was started

\* the state of the loop body when it is followed call by call
loopVars == <<body, trace, seq>>

\* the state of the process around listenForMessages
startVars == <<env, boot, exitStatus, output, client, convs, groups, runs>>

vars == <<variant, pc, retryCount, store, members, last, eff, sleeps, stream,
          openFails, now, body, trace, seq, env, boot, exitStatus, output, client,
          convs, groups, runs>>

-----------------------------------------------------------------------------
(* Bounds of the model *)

MaxStore == 2        \* records the store may hold
MaxTime == 2         \* instants the clock goes through
MaxFaults == 2       \* external calls that may fail while one message is handled
MaxSeq == 2          \* messages taken when the body is followed call by call
MaxRuns == 2         \* times the process is started on the same local database
MaxGuessLen == 2     \* characters of a guess when every spelling is tried

(* Program constants *)

MAX_RETRIES == 6
RETRY_DELAY_MS == 10000
GUESS_LIMIT == 5

-----------------------------------------------------------------------------
(* Strings *)

S_guess == <<"/", "g", "u", "e", "s", "s">>
S_confess == <<"/", "c", "o", "n", "f", "e", "s", "s">>
S_shh == <<"/", "s", "h", "h">>

\* String.prototype.toLowerCase, on the letters the model uses
LowerChar(c) ==
    CASE c = "A" -> "a"
      [] c = "B" -> "b"
      [] c = "U" -> "u"
      [] c = "X" -> "x"
      [] OTHER -> c

toLowerCase(s) == [i \in 1..Len(s) |-> LowerChar(s[i])]

IsSpace(c) == c = " "

RECURSIVE trimStart(_)
trimStart(s) ==
    IF s # <<>> /\ IsSpace(Head(s)) THEN trimStart(Tail(s)) ELSE s

RECURSIVE trimEnd(_)
trimEnd(s) ==
    IF s # <<>> /\ IsSpace(s[Len(s)]) THEN trimEnd(SubSeq(s, 1, Len(s) - 1)) ELSE s

trim(s) == trimEnd(trimStart(s))

startsWith(s, p) == Len(s) >= Len(p) /\ SubSeq(s, 1, Len(p)) = p

\* s.slice(n): the characters from 0-based index n on
slice(s, n) == SubSeq(s, n + 1, Len(s))

\* s.substring(0, n)
substring0(s, n) == SubSeq(s, 1, n)

\* s.lastIndexOf(c), 0-based, -1 when absent
lastIndexOf(s, c) ==
    IF \E i \in 1..Len(s) : s[i] = c
    THEN (CHOOSE i \in 1..Len(s) : s[i] = c /\ \A j \in (i + 1)..Len(s) : s[j] # c) - 1
    ELSE 0 - 1

\* s.replace(c, ''): the first occurrence of c removed, wherever it is
replaceFirst(s, c) ==
    IF \E i \in 1..Len(s) : s[i] = c
    THEN LET i == CHOOSE k \in 1..Len(s) : s[k] = c /\ \A j \in 1..(k - 1) : s[j] # c
         IN  SubSeq(s, 1, i - 1) \o SubSeq(s, i + 1, Len(s))
    ELSE s

\* isSameString without the toLowerCase calls
isSameString_exact(a, b) == a = b

\* utils isSameString: a?.toLowerCase() === b?.toLowerCase()
isSameString(a, b) == toLowerCase(a) = toLowerCase(b)

-----------------------------------------------------------------------------
(* The game store: src/game.json *)

\* the value of a field the record does not have
undefined == 0 - 1

\* (n || 0)
OrZero(n) == IF n = undefined THEN 0 ELSE n

Record(q, a, n, t) ==
    [question |-> q, answer |-> a, isComplete |-> FALSE,
     incorrectGuesses |-> n, timestamp |-> t]

IoOutcomes == {"ok", "readFail", "writeFail"}

\* hasActiveGame that answers true when the file cannot be read
hasActiveGame_failClosed(st, io) ==
    IF io = "readFail" THEN TRUE
    ELSE \E i \in 1..Len(st) : ~st[i].isComplete

\* gameData.questions.some(q => !q.isComplete); false when the file cannot be read
hasActiveGame(st, io) ==
    IF io = "readFail" THEN FALSE
    ELSE \E i \in 1..Len(st) : ~st[i].isComplete

\* saveConfession that takes an unreadable file for an empty one and writes it
saveConfession_blind(st, confession, username, t, io) ==
    IF io = "ok"
    THEN [store |-> Append(st, Record(confession, username, 0, t)), saved |-> TRUE]
    ELSE IF io = "readFail"
    THEN [store |-> <<Record(confession, username, 0, t)>>, saved |-> TRUE]
    ELSE [store |-> st, saved |-> FALSE]

\* stream.ts: the record carries incorrectGuesses: 0
saveConfession(st, confession, username, t, io) ==
    IF io = "ok"
    THEN [store |-> Append(st, Record(confession, username, 0, t)), saved |-> TRUE]
    ELSE [store |-> st, saved |-> FALSE]

\* saveConfession_p1 that puts the new record in the place of the latest one
saveConfession_p1_replace(st, confession, username, t, io) ==
    IF io = "ok"
    THEN [store |-> Append(SubSeq(st, 1, Len(st) - 1),
                           Record(confession, username, undefined, t)),
          saved |-> TRUE]
    ELSE [store |-> st, saved |-> FALSE]

\* part_001: the record has no incorrectGuesses field
saveConfession_p1(st, confession, username, t, io) ==
    IF io = "ok"
    THEN [store |-> Append(st, Record(confession, username, undefined, t)), saved |-> TRUE]
    ELSE [store |-> st, saved |-> FALSE]

NoResult == [correct |-> FALSE, confession |-> <<>>, error |-> ""]

FailedCheck(st) ==
    [store |-> st, res |-> [NoResult EXCEPT !.error = "FailedToCheck"]]

\* FindOpen with the isComplete test forgotten: the first record, open or not
FindOpen_first(st) == IF Len(st) > 0 THEN 1 ELSE 0

\* questions.find(q => !q.isComplete): index of the oldest open record, 0 if none
FindOpen(st) ==
    IF \E i \in 1..Len(st) : ~st[i].isComplete
    THEN CHOOSE i \in 1..Len(st) : ~st[i].isComplete /\ \A j \in 1..(i - 1) : st[j].isComplete
    ELSE 0

\* GuessMatches without the replace('@', '')
GuessMatches_noStrip(answer, guess) == toLowerCase(answer) = toLowerCase(guess)

\* guess.replace('@', '').toLowerCase() === answer.toLowerCase()
GuessMatches(answer, guess) ==
    toLowerCase(answer) = toLowerCase(replaceFirst(guess, "@"))

\* LimitReached with > for >=: the record survives its fifth wrong guess
LimitReached_gt(n) == n > GUESS_LIMIT

\* if (nextConfession.incorrectGuesses >= 5)
LimitReached(n) == n >= GUESS_LIMIT

\* checkGuess that hands back the answer of the record where the question belongs
checkGuess_tellsAnswer(st, guess, io) ==
    IF io = "readFail" THEN FailedCheck(st)
    ELSE LET i == FindOpen(st) IN
      IF i = 0
      THEN [store |-> st, res |-> [NoResult EXCEPT !.error = "NoGameFound"]]
      ELSE IF GuessMatches(st[i].answer, guess)
      THEN IF io = "writeFail" THEN FailedCheck(st)
           ELSE [store |-> [st EXCEPT ![i].isComplete = TRUE],
                 res |-> [NoResult EXCEPT !.correct = TRUE,
                                          !.confession = st[i].question]]
      ELSE LET n == OrZero(st[i].incorrectGuesses) + 1 IN
           IF io = "writeFail" THEN FailedCheck(st)
           ELSE IF LimitReached(n)
           THEN [store |-> [st EXCEPT ![i].incorrectGuesses = n, ![i].isComplete = TRUE],
                 res |-> [NoResult EXCEPT !.error = "GameOver"]]
           ELSE [store |-> [st EXCEPT ![i].incorrectGuesses = n],
                 res |-> [NoResult EXCEPT !.confession = st[i].answer]]

\* checkGuess that writes the file only when a record is closed
checkGuess_noCount(st, guess, io) ==
    IF io = "readFail" THEN FailedCheck(st)
    ELSE LET i == FindOpen(st) IN
      IF i = 0
      THEN [store |-> st, res |-> [NoResult EXCEPT !.error = "NoGameFound"]]
      ELSE IF GuessMatches(st[i].answer, guess)
      THEN IF io = "writeFail" THEN FailedCheck(st)
           ELSE [store |-> [st EXCEPT ![i].isComplete = TRUE],
                 res |-> [NoResult EXCEPT !.correct = TRUE,
                                          !.confession = st[i].question]]
      ELSE LET n == OrZero(st[i].incorrectGuesses) + 1 IN
           IF LimitReached(n)
           THEN IF io = "writeFail" THEN FailedCheck(st)
                ELSE [store |-> [st EXCEPT ![i].incorrectGuesses = n,
                                           ![i].isComplete = TRUE],
                      res |-> [NoResult EXCEPT !.error = "GameOver"]]
           ELSE [store |-> st, res |-> [NoResult EXCEPT !.confession = st[i].question]]

\* stream.ts checkGuess: oldest open record, '@' stripped, five wrong guesses close it
checkGuess(st, guess, io) ==
    IF io = "readFail" THEN FailedCheck(st)
    ELSE LET i == FindOpen(st) IN
      IF i = 0
      THEN [store |-> st, res |-> [NoResult EXCEPT !.error = "NoGameFound"]]
      ELSE IF GuessMatches(st[i].answer, guess)
      THEN IF io = "writeFail" THEN FailedCheck(st)
           ELSE [store |-> [st EXCEPT ![i].isComplete = TRUE],
                 res |-> [NoResult EXCEPT !.correct = TRUE,
                                          !.confession = st[i].question]]
      ELSE LET n == OrZero(st[i].incorrectGuesses) + 1 IN
           IF io = "writeFail" THEN FailedCheck(st)
           ELSE IF LimitReached(n)
           THEN [store |-> [st EXCEPT ![i].incorrectGuesses = n, ![i].isComplete = TRUE],
                 res |-> [NoResult EXCEPT !.error = "GameOver"]]
           ELSE [store |-> [st EXCEPT ![i].incorrectGuesses = n],
                 res |-> [NoResult EXCEPT !.confession = st[i].question]]

\* answer.toLowerCase() === guess.toLowerCase()
GuessMatches_p1(answer, guess) == toLowerCase(answer) = toLowerCase(guess)

\* part_001 checkGuess: the latest record; a wrong guess writes nothing
checkGuess_p1(st, guess, io) ==
    IF io = "readFail" THEN FailedCheck(st)
    ELSE IF Len(st) = 0
    THEN [store |-> st, res |-> [NoResult EXCEPT !.error = "NoGameFound"]]
    ELSE LET i == Len(st) IN
      IF st[i].isComplete
      THEN [store |-> st, res |-> [NoResult EXCEPT !.error = "AlreadyGuessed"]]
      ELSE IF GuessMatches_p1(st[i].answer, guess)
      THEN IF io = "writeFail" THEN FailedCheck(st)
           ELSE [store |-> [st EXCEPT ![i].isComplete = TRUE],
                 res |-> [NoResult EXCEPT !.correct = TRUE,
                                          !.confession = st[i].question]]
      ELSE [store |-> st,
            res |-> [NoResult EXCEPT !.confession = st[i].question]]

-----------------------------------------------------------------------------
(* Parsing of /confess *)

NoParse == [ok |-> FALSE, confession |-> <<>>, username |-> <<>>]

\* stream.ts parseConfession: split at the last '@', confession trimEnd-ed
parseConfession(content) ==
    LET atIndex == lastIndexOf(content, "@") IN
    IF atIndex = 0 - 1 THEN NoParse
    ELSE LET confession == trimEnd(substring0(content, atIndex))
             username == trim(slice(content, atIndex + 1))
         IN  IF confession = <<>> \/ username = <<>> THEN NoParse
             ELSE [ok |-> TRUE, confession |-> confession, username |-> username]

\* part_001 parseConfession: the confession keeps its trailing spaces
parseConfession_p1(content) ==
    LET atIndex == lastIndexOf(content, "@") IN
    IF atIndex = 0 - 1 THEN NoParse
    ELSE LET confession == substring0(content, atIndex)
             username == trim(slice(content, atIndex + 1))
         IN  IF confession = <<>> \/ username = <<>> THEN NoParse
             ELSE [ok |-> TRUE, confession |-> confession, username |-> username]

-----------------------------------------------------------------------------
(* External calls and how they fail *)

Call(op, to, tag, args) == [op |-> op, to |-> to, tag |-> tag, args |-> args, ok |-> TRUE]

Send(to, tag, args) == Call("send", to, tag, args)

Failed(e) == [e EXCEPT !.ok = FALSE]

\* awaited sends issued one after the other: all succeed, or the k-th throws
\* and the rest are not issued
RunSends(plan) ==
    {[eff |-> plan, thrown |-> FALSE]} \cup
    {[eff |-> Append(SubSeq(plan, 1, k - 1), Failed(plan[k])), thrown |-> TRUE] :
        k \in 1..Len(plan)}

\* ErrorPath without its try/catch: a failing lookup or apology leaves the body
ErrorPath_rethrow(m) ==
    LET lookup == Call("getConversationById", "client", "error", <<>>)
        thrown == Call("throw", "loop", "", <<>>)
    IN  {<<Failed(lookup), thrown>>, <<[lookup EXCEPT !.tag = "none"]>>} \cup
        (IF m.conv = "group"
         THEN {<<lookup>>}
         ELSE {<<lookup, Send("conv", "SorryProcessing", <<>>)>>,
               <<lookup, Failed(Send("conv", "SorryProcessing", <<>>)), thrown>>})

\* catch (processingError): look the conversation up again and, when it is not
\* a group, send the apology; whatever this throws is caught and logged
ErrorPath(m) ==
    LET lookup == Call("getConversationById", "client", "error", <<>>) IN
    {<<Failed(lookup)>>, <<[lookup EXCEPT !.tag = "none"]>>} \cup
    (IF m.conv = "group"
     THEN {<<lookup>>}
     ELSE {<<lookup, e>> : e \in {Send("conv", "SorryProcessing", <<>>),
                                   Failed(Send("conv", "SorryProcessing", <<>>))}})

\* sends made directly in the per-message try block
Guarded(plan, m) ==
    UNION {IF r.thrown THEN {r.eff \o x : x \in ErrorPath(m)} ELSE {r.eff} :
             r \in RunSends(plan)}

\* try { plan } catch { await conversation.send(sorry) }
TryCatch(plan, sorry, m) ==
    UNION {IF r.thrown THEN {r.eff \o x : x \in Guarded(<<sorry>>, m)} ELSE {r.eff} :
             r \in RunSends(plan)}

-----------------------------------------------------------------------------
(* Group membership *)

GroupNames == {"group", "announcements", "social"}

IsMember(mem, g, sender) == \E x \in mem[g] : isSameString(x, sender)

\* CheckAndAdd with the added flag set before addMembers is awaited
CheckAndAdd_flagFirst(mem, g, sender) ==
    LET list == Call("members", g, "", <<>>)
        add == Call("addMembers", g, "", <<sender>>)
    IN  {[members |-> mem, eff |-> <<Failed(list)>>, added |-> FALSE, already |-> FALSE]} \cup
        (IF IsMember(mem, g, sender)
         THEN {[members |-> mem, eff |-> <<list>>, added |-> FALSE, already |-> TRUE]}
         ELSE {[members |-> [mem EXCEPT ![g] = @ \cup {sender}], eff |-> <<list, add>>,
                added |-> TRUE, already |-> FALSE],
               [members |-> mem, eff |-> <<list, Failed(add)>>,
                added |-> TRUE, already |-> FALSE]})

\* try { members(); if (!isMember) { addMembers([sender]); added } else already }
\* catch (e) { log }: what one group's check-and-add leaves behind
CheckAndAdd(mem, g, sender) ==
    LET list == Call("members", g, "", <<>>)
        add == Call("addMembers", g, "", <<sender>>)
    IN  {[members |-> mem, eff |-> <<Failed(list)>>, added |-> FALSE, already |-> FALSE]} \cup
        (IF IsMember(mem, g, sender)
         THEN {[members |-> mem, eff |-> <<list>>, added |-> FALSE, already |-> TRUE]}
         ELSE {[members |-> [mem EXCEPT ![g] = @ \cup {sender}], eff |-> <<list, add>>,
                added |-> TRUE, already |-> FALSE],
               [members |-> mem, eff |-> <<list, Failed(add)>>,
                added |-> FALSE, already |-> FALSE]})

\* part_001 lines 326-354: the confirmation chosen from the four flags
Confirmation_p1(addedA, addedS, alreadyA, alreadyS) ==
    IF addedA /\ addedS THEN "AddedBoth"
    ELSE IF addedA /\ alreadyS THEN "AddedAnnouncementsAlreadySocial"
    ELSE IF addedS /\ alreadyA THEN "AddedSocialAlreadyAnnouncements"
    ELSE IF addedA THEN "AddedAnnouncementsTriedSocial"
    ELSE IF addedS THEN "AddedSocialTriedAnnouncements"
    ELSE IF alreadyA /\ alreadyS THEN "AlreadyBoth"
    ELSE IF alreadyA THEN "StatusAlreadyAnnouncements"
    ELSE IF alreadyS THEN "StatusAlreadySocial"
    ELSE "StatusProcessed"

\* Enroll_p1 whose fallback leaves confirmationMessage empty, so nothing is sent
Enroll_p1_silent(st, mem, m) ==
    UNION {UNION {
        LET tag == Confirmation_p1(a.added, b.added, a.already, b.already) IN
        {[store |-> st, members |-> b.members, eff |-> a.eff \o b.eff \o x] :
            x \in Guarded(IF tag = "StatusProcessed" THEN <<>>
                          ELSE <<Send("conv", tag, <<>>)>>, m)} :
        b \in CheckAndAdd(a.members, "social", m.sender)} :
        a \in CheckAndAdd(mem, "announcements", m.sender)}

\* part_001 lines 273-358: both groups, then one confirmation
Enroll_p1(st, mem, m) ==
    UNION {UNION {
        {[store |-> st, members |-> b.members, eff |-> a.eff \o b.eff \o x] :
            x \in Guarded(<<Send("conv",
                     Confirmation_p1(a.added, b.added, a.already, b.already), <<>>)>>, m)} :
        b \in CheckAndAdd(a.members, "social", m.sender)} :
        a \in CheckAndAdd(mem, "announcements", m.sender)}

\* stream.ts lines 889-939: one group; a new member also gets the instructions
Enroll(st, mem, m) ==
    UNION {
        {[store |-> st, members |-> a.members, eff |-> a.eff \o x] :
            x \in Guarded(IF a.added
                          THEN <<Send("conv", "YouveBeenAdded", <<>>),
                                 Send("conv", "Instructions", <<>>)>>
                          ELSE IF a.already
                          THEN <<Send("conv", "Instructions", <<>>)>>
                          ELSE <<Send("conv", "TriedToAddError", <<>>)>>, m)} :
        a \in CheckAndAdd(mem, "group", m.sender)}

-----------------------------------------------------------------------------
(* Commands *)

\* a call of a store function; failed says whether its read or write threw
StoreCall(fn, io, failed) ==
    [Call(fn, "game.json", IF failed THEN io ELSE "ok", <<>>) EXCEPT !.ok = ~failed]

CheckCall(r, io) == StoreCall("checkGuess", io, r.res.error = "FailedToCheck")

\* the sends that follow a checkGuess result, stream.ts lines 761-779
GuessPlan(res, sender, guess) ==
    IF res.error # "" THEN <<Send("conv", res.error, <<>>)>>
    ELSE IF res.correct
    THEN <<Send("group", "Confession", <<res.confession>>),
           Send("group", "CorrectAnnounce", <<sender>>)>>
    ELSE <<Send("conv", "WrongGuess", <<>>),
           Send("group", "Confession", <<res.confession>>),
           Send("group", "WrongAnnounce", <<sender, guess>>)>>

\* Guess that puts the store back when one of its sends throws
Guess_rollback(st, mem, m) ==
    LET guess == trim(slice(m.content, Len(S_guess))) IN
    IF guess = <<>>
    THEN {[store |-> st, members |-> mem, eff |-> x] :
            x \in Guarded(<<Send("conv", "GuessUsage", <<>>)>>, m)}
    ELSE UNION {
        LET r == checkGuess(st, guess, io) IN
        {[store |-> IF \E i \in 1..Len(x) : ~x[i].ok THEN st ELSE r.store,
          members |-> mem, eff |-> <<CheckCall(r, io)>> \o x] :
            x \in TryCatch(GuessPlan(r.res, m.sender, guess),
                           Send("conv", "SorryGuess", <<>>), m)} :
        io \in IoOutcomes}

\* stream.ts lines 745-786
Guess(st, mem, m) ==
    LET guess == trim(slice(m.content, Len(S_guess))) IN
    IF guess = <<>>
    THEN {[store |-> st, members |-> mem, eff |-> x] :
            x \in Guarded(<<Send("conv", "GuessUsage", <<>>)>>, m)}
    ELSE UNION {
        LET r == checkGuess(st, guess, io) IN
        {[store |-> r.store, members |-> mem, eff |-> <<CheckCall(r, io)>> \o x] :
            x \in TryCatch(GuessPlan(r.res, m.sender, guess),
                           Send("conv", "SorryGuess", <<>>), m)} :
        io \in IoOutcomes}

\* the sends that follow a checkGuess result, part_001 lines 163-182
GuessPlan_p1(res, sender, guess) ==
    IF res.error # "" THEN <<Send("conv", res.error, <<>>)>>
    ELSE IF res.correct
    THEN <<Send("conv", "CorrectGuess", <<>>),
           Send("social", "Confession", <<res.confession>>),
           Send("social", "CorrectAnnounce", <<sender>>)>>
    ELSE <<Send("conv", "WrongGuess", <<>>),
           Send("social", "Confession", <<res.confession>>),
           Send("social", "WrongAnnounce", <<sender, guess>>)>>

\* part_001 lines 156-193
Guess_p1(st, mem, m) ==
    LET guess == trim(slice(m.content, Len(S_guess))) IN
    IF guess = <<>>
    THEN {[store |-> st, members |-> mem, eff |-> x] :
            x \in Guarded(<<Send("conv", "GuessUsage", <<>>)>>, m)}
    ELSE UNION {
        LET r == checkGuess_p1(st, guess, io) IN
        {[store |-> r.store, members |-> mem, eff |-> <<CheckCall(r, io)>> \o x] :
            x \in TryCatch(GuessPlan_p1(r.res, m.sender, guess),
                           Send("conv", "SorryGuess", <<>>), m)} :
        io \in IoOutcomes}

\* Publish with the two statements swapped: the record is saved, then broadcast
Publish_saveFirst(st, mem, m, parsed) ==
    LET post == Send("group", "NewConfession", <<parsed.confession>>)
        sorry == Send("conv", "SorryConfess", <<>>)
    IN  UNION {
            LET r == saveConfession(st, parsed.confession, parsed.username, now, io) IN
            {[store |-> r.store, members |-> mem,
              eff |-> <<StoreCall("saveConfession", io, ~r.saved)>> \o x] :
                x \in TryCatch(<<post, Send("conv", IF r.saved THEN "Saved"
                                                    ELSE "FailedToSave", <<>>)>>, sorry, m)} :
            io \in IoOutcomes}

\* try { group.send(confession); saved = saveConfession(); conversation.send(...) }
\* catch { conversation.send(sorry) }: stream.ts lines 828-852
Publish(st, mem, m, parsed) ==
    LET post == Send("group", "NewConfession", <<parsed.confession>>)
        sorry == Send("conv", "SorryConfess", <<>>)
    IN  {[store |-> st, members |-> mem, eff |-> <<Failed(post)>> \o x] :
            x \in Guarded(<<sorry>>, m)} \cup
        UNION {
            LET r == saveConfession(st, parsed.confession, parsed.username, now, io) IN
            {[store |-> r.store, members |-> mem,
              eff |-> <<post, StoreCall("saveConfession", io, ~r.saved)>> \o x] :
                x \in TryCatch(<<Send("conv", IF r.saved THEN "Saved" ELSE "FailedToSave",
                                      <<>>)>>, sorry, m)} :
            io \in IoOutcomes}

\* ConfessBody without the if (!content) branch: the empty content goes to the
\* parser
ConfessBody_noUsage(st, mem, m, content) ==
    LET parsed == parseConfession(content) IN
    IF parsed.ok THEN Publish(st, mem, m, parsed)
    ELSE {[store |-> st, members |-> mem, eff |-> x] :
            x \in Guarded(<<Send("conv", "FormatHelp", <<>>)>>, m)}

\* what follows the membership check of /confess, stream.ts lines 813-857
ConfessBody(st, mem, m, content) ==
    IF content = <<>>
    THEN {[store |-> st, members |-> mem, eff |-> x] :
            x \in Guarded(<<Send("conv", "ConfessUsage", <<>>)>>, m)}
    ELSE LET parsed == parseConfession(content) IN
         IF parsed.ok THEN Publish(st, mem, m, parsed)
         ELSE {[store |-> st, members |-> mem, eff |-> x] :
                 x \in Guarded(<<Send("conv", "FormatHelp", <<>>)>>, m)}

\* stream.ts lines 789-858: the sender is first added to the group; there is
\* no hasActiveGame call on this path
Confess(st, mem, m) ==
    LET content == trim(slice(m.content, Len(S_confess)))
        list == Call("members", "group", "", <<>>)
        add == Call("addMembers", "group", "", <<m.sender>>)
        welcome == Send("conv", "YouveBeenAdded", <<>>)
        failed == Send("conv", "FailedToAdd", <<>>)
        added == [mem EXCEPT !["group"] = @ \cup {m.sender}]
        Stop(mm, pre) == {[store |-> st, members |-> mm, eff |-> pre \o x] :
                            x \in Guarded(<<failed>>, m)}
        Go(mm, pre) == {[r EXCEPT !.eff = pre \o @] : r \in ConfessBody(st, mm, m, content)}
    IN  Stop(mem, <<Failed(list)>>) \cup
        (IF IsMember(mem, "group", m.sender)
         THEN Go(mem, <<list>>)
         ELSE Stop(mem, <<list, Failed(add)>>) \cup
              Stop(added, <<list, add, Failed(welcome)>>) \cup
              Go(added, <<list, add, welcome>>))

\* try { social.send; saveConfession; conversation.send } catch { ... }:
\* part_001 lines 212-236
Publish_p1(st, mem, m, parsed) ==
    LET post == Send("social", "NewConfession", <<parsed.confession>>)
        sorry == Send("conv", "SorryConfess", <<>>)
    IN  {[store |-> st, members |-> mem, eff |-> <<Failed(post)>> \o x] :
            x \in Guarded(<<sorry>>, m)} \cup
        UNION {
            LET r == saveConfession_p1(st, parsed.confession, parsed.username, now, io) IN
            {[store |-> r.store, members |-> mem,
              eff |-> <<post, StoreCall("saveConfession", io, ~r.saved)>> \o x] :
                x \in TryCatch(<<Send("conv", IF r.saved THEN "Saved" ELSE "FailedToSave",
                                      <<>>)>>, sorry, m)} :
            io \in IoOutcomes}

\* part_001 lines 196-242: hasActiveGame gates the command
Confess_p1(st, mem, m) ==
    LET content == trim(slice(m.content, Len(S_confess))) IN
    UNION {
        LET gate == StoreCall("hasActiveGame", io, io # "ok") IN
        IF hasActiveGame(st, io)
        THEN {[store |-> st, members |-> mem, eff |-> <<gate>> \o x] :
                x \in Guarded(<<Send("conv", "ActiveGame", <<>>)>>, m)}
        ELSE LET parsed == parseConfession_p1(content) IN
             IF parsed.ok
             THEN {[r EXCEPT !.eff = <<gate>> \o @] : r \in Publish_p1(st, mem, m, parsed)}
             ELSE {[store |-> st, members |-> mem, eff |-> <<gate>> \o x] :
                     x \in Guarded(<<Send("conv", "FormatHelp", <<>>)>>, m)} :
        io \in {"ok", "readFail"}}

\* Shh that names the sender in the relayed message
Shh_signed(st, mem, m, g) ==
    LET relayMessage == trim(slice(m.content, 4)) IN
    IF relayMessage # <<>>
    THEN {[store |-> st, members |-> mem, eff |-> x] :
            x \in TryCatch(<<Send(g, "Relay", <<m.sender, relayMessage>>),
                             Send("conv", "Relayed", <<>>)>>,
                           Send("conv", "SorryRelay", <<>>), m)}
    ELSE {[store |-> st, members |-> mem, eff |-> x] :
            x \in Guarded(<<Send("conv", "ShhUsage", <<>>)>>, m)}

\* stream.ts lines 861-878 and part_001 lines 245-262; g is the group relayed to
Shh(st, mem, m, g) ==
    LET relayMessage == trim(slice(m.content, 4)) IN
    IF relayMessage # <<>>
    THEN {[store |-> st, members |-> mem, eff |-> x] :
            x \in TryCatch(<<Send(g, "Relay", <<relayMessage>>),
                             Send("conv", "Relayed", <<>>)>>,
                           Send("conv", "SorryRelay", <<>>), m)}
    ELSE {[store |-> st, members |-> mem, eff |-> x] :
            x \in Guarded(<<Send("conv", "ShhUsage", <<>>)>>, m)}

-----------------------------------------------------------------------------
(* One message of the stream *)

ClientInboxId == <<"b">>

\* the group the game messages go to
GameGroup(v) == IF v = "stream" THEN "group" ELSE "social"

\* shouldSkip comparing the inbox ids with === instead of isSameString
shouldSkip_exact(m) ==
    \/ ~m.defined
    \/ m.sender = ClientInboxId
    \/ m.typeId # "text"

\* shouldSkip: no message, a message of the client itself, or not a text
shouldSkip(m) ==
    \/ ~m.defined
    \/ isSameString(m.sender, ClientInboxId)
    \/ m.typeId # "text"

\* Dispatch without the instanceof Group test before the enrollment
Dispatch_noGroupCheck(v, st, mem, m) ==
    IF startsWith(m.content, S_guess)
    THEN IF v = "stream" THEN Guess(st, mem, m) ELSE Guess_p1(st, mem, m)
    ELSE IF startsWith(m.content, S_confess)
    THEN IF v = "stream" THEN Confess(st, mem, m) ELSE Confess_p1(st, mem, m)
    ELSE IF startsWith(m.content, S_shh)
    THEN Shh(st, mem, m, GameGroup(v))
    ELSE IF v = "stream" THEN Enroll(st, mem, m) ELSE Enroll_p1(st, mem, m)

\* Dispatch with the instanceof Group test ahead of the command prefixes
Dispatch_groupFirst(v, st, mem, m) ==
    IF m.conv = "group"
    THEN {[store |-> st, members |-> mem, eff |-> <<>>]}
    ELSE IF startsWith(m.content, S_guess)
    THEN IF v = "stream" THEN Guess(st, mem, m) ELSE Guess_p1(st, mem, m)
    ELSE IF startsWith(m.content, S_confess)
    THEN IF v = "stream" THEN Confess(st, mem, m) ELSE Confess_p1(st, mem, m)
    ELSE IF startsWith(m.content, S_shh)
    THEN Shh(st, mem, m, GameGroup(v))
    ELSE IF v = "stream" THEN Enroll(st, mem, m) ELSE Enroll_p1(st, mem, m)

\* first match wins: /guess, /confess, /shh, then the group check, then enrollment
Dispatch(v, st, mem, m) ==
    IF startsWith(m.content, S_guess)
    THEN IF v = "stream" THEN Guess(st, mem, m) ELSE Guess_p1(st, mem, m)
    ELSE IF startsWith(m.content, S_confess)
    THEN IF v = "stream" THEN Confess(st, mem, m) ELSE Confess_p1(st, mem, m)
    ELSE IF startsWith(m.content, S_shh)
    THEN Shh(st, mem, m, GameGroup(v))
    ELSE IF m.conv = "group"
    THEN {[store |-> st, members |-> mem, eff |-> <<>>]}
    ELSE IF v = "stream" THEN Enroll(st, mem, m) ELSE Enroll_p1(st, mem, m)

\* the body of the inner try of the for-await loop, with its catch
Handle(v, st, mem, m) ==
    LET lookup == Call("getConversationById", "client", "found", <<>>) IN
    IF m.conv = "missing"
    THEN {[store |-> st, members |-> mem, eff |-> <<>>]}
    ELSE {[store |-> st, members |-> mem, eff |-> <<Failed(lookup)>> \o x] :
            x \in ErrorPath(m)} \cup
         {[store |-> st, members |-> mem, eff |-> <<[lookup EXCEPT !.tag = "none"]>>]} \cup
         {[r EXCEPT !.eff = <<lookup>> \o @] : r \in Dispatch(v, st, mem, m)}

\* the external calls of one message that failed
FaultCount(e) == Cardinality({i \in 1..Len(e) : ~e[i].ok})

\* an exception that left the loop body
Escaped(e) == e # <<>> /\ e[Len(e)].op = "throw"

-----------------------------------------------------------------------------
(* Inputs *)

Text(sender, conv, content) ==
    [defined |-> TRUE, sender |-> sender, typeId |-> "text", conv |-> conv,
     content |-> content]

NoMessage ==
    [defined |-> FALSE, sender |-> <<>>, typeId |-> "", conv |-> "missing", content |-> <<>>]

U1 == <<"u">>
U2 == <<"U">>

M_guess_a == S_guess \o <<" ", "a">>
M_guess_A == S_guess \o <<" ", "@", "A">>
M_guess_b == S_guess \o <<" ", "b">>
M_confess_xa == S_confess \o <<" ", "x", " ", "@", "a">>
M_confess_none == S_confess \o <<" ">>
M_confess_noat == S_confess \o <<" ", "x">>
M_shh_x == S_shh \o <<" ", "x">>
M_hi == <<"h", "i">>

Commands ==
    {Text(U1, "dm", c) : c \in {M_guess_a, M_guess_A, M_guess_b, S_guess, M_confess_xa,
                                M_confess_none, M_confess_noat, M_shh_x, S_shh}}

Plain == {Text(U1, "dm", M_hi), Text(U2, "dm", M_hi), Text(U1, "group", M_hi),
          Text(U1, "missing", M_hi)}

Skipped ==
    {NoMessage, Text(<<"B">>, "dm", M_hi),
     [Text(U1, "dm", M_hi) EXCEPT !.typeId = "reaction"]}

Messages == Commands \cup Plain \cup Skipped

-----------------------------------------------------------------------------
(* Startup: the module body and main of part_000, the groups of offsite.ts *)

Required == <<"WALLET_KEY", "ENCRYPTION_KEY", "XMTP_ENV">>

\* a variable process.env does not have, and one it has
Unset == [set |-> FALSE, value |-> ""]
Val(v) == [set |-> TRUE, value |-> v]

EnvChoices ==
    [WALLET_KEY : {Unset, Val(""), Val("0xkey")},
     ENCRYPTION_KEY : {Unset, Val(""), Val("hexkey")},
     XMTP_ENV : {Unset, Val(""), Val("dev"), Val("production")}]

\* validateEnvironment that takes a variable set to "" as present
validateEnvironment_undefinedOnly(e, requiredEnvVars) ==
    LET missingEnvVars == SelectSeq(requiredEnvVars, LAMBDA v : ~e[v].set)
    IN  [thrown |-> Len(missingEnvVars) > 0, missing |-> missingEnvVars]

\* requiredEnvVars.filter(v => !process.env[v]); throws when the list is not empty
validateEnvironment(e, requiredEnvVars) ==
    LET missingEnvVars == SelectSeq(requiredEnvVars, LAMBDA v : ~e[v].set \/ e[v].value = "")
    IN  [thrown |-> Len(missingEnvVars) > 0, missing |-> missingEnvVars]

NoOutput == [by |-> "", names |-> <<>>]

\* the error thrown while the module is loaded reaches no handler: the runtime
\* prints it and ends the process
Uncaught(names) == [by |-> "Error: Missing environment variables", names |-> names]

\* main().catch: log(`Fatal error: ...`); process.exit(1)
Fatal ==
    /\ boot' = "exited"
    /\ exitStatus' = 1
    /\ output' = [by |-> "Fatal error", names |-> <<>>]

\* offsite.ts line 5, shortened: an address with letters of both cases
BASE_SUMMIT_ADMIN_ADDRESS == <<"0", "x", "A", "b">>

\* the inbox id the network has for that address
AdminInboxId == <<"i">>

\* a group conversation: listed holds the Ethereum identifiers of its members
\* as members() reports them, superAdmins the inbox ids of its super admins
Conv(name, run) ==
    [name |-> name, listed |-> {}, superAdmins |-> {}, run |-> run]

\* the group as the admin setup leaves it when nothing fails
WithAdmin(c) ==
    [c EXCEPT !.listed = {toLowerCase(BASE_SUMMIT_ADMIN_ADDRESS)},
              !.superAdmins = {AdminInboxId}]

NoGroups == [announcements |-> 0, social |-> 0]

\* findGroupByName on a list that lacks the groups this client created
findGroupByName_stale(cv, groupName) ==
    LET S == {i \in 1..Len(cv) : cv[i].name = groupName /\ cv[i].run = 0} IN
    IF S = {} THEN 0 ELSE CHOOSE i \in S : \A j \in S : i <= j

\* conversations.find(g => g.name === groupName): the first one, 0 for undefined
findGroupByName(cv, groupName) ==
    LET S == {i \in 1..Len(cv) : cv[i].name = groupName} IN
    IF S = {} THEN 0 ELSE CHOOSE i \in S : \A j \in S : i <= j

\* the spellings under which members() may report an address that was added
Spellings(address) == {address, toLowerCase(address)}

\* members.find(m => m.accountIdentifiers.some(id => isSameString(id.identifier,
\* adminAddress))) finds a member
HasMember(c, adminAddress) ==
    \E x \in c.listed : isSameString(x, adminAddress)

\* addAdminToGroupInternal that adds and promotes without looking first
addAdminToGroupInternal_always(cv, i, adminAddress) ==
    LET list == Call("members", cv[i].name, "", <<>>)
        add == Call("addMembersByIdentifiers", cv[i].name, "", <<adminAddress>>)
        sup == Call("addSuperAdmin", cv[i].name, "", <<AdminInboxId>>)
        c2 == [cv EXCEPT ![i].listed = @ \cup {toLowerCase(adminAddress)}]
    IN  {[convs |-> cv, eff |-> <<Failed(list)>>, thrown |-> TRUE],
         [convs |-> cv, eff |-> <<list, Failed(add)>>, thrown |-> FALSE],
         [convs |-> c2, eff |-> <<list, add, list, Failed(sup)>>, thrown |-> FALSE],
         [convs |-> [c2 EXCEPT ![i].superAdmins = @ \cup {AdminInboxId}],
          eff |-> <<list, add, list, sup>>, thrown |-> FALSE]}

\* the admin is added as a member when absent, then promoted when no super admin
\* yet; only the first members() call is outside every try block
addAdminToGroupInternal(cv, i, adminAddress) ==
    LET list == Call("members", cv[i].name, "", <<>>)
        add == Call("addMembersByIdentifiers", cv[i].name, "", <<adminAddress>>)
        sup == Call("addSuperAdmin", cv[i].name, "", <<AdminInboxId>>)
        Quiet(c, pre) == [convs |-> c, eff |-> pre, thrown |-> FALSE]
        Promote(c, pre) ==
            IF AdminInboxId \in c[i].superAdmins
            THEN {Quiet(c, pre)}
            ELSE {Quiet([c EXCEPT ![i].superAdmins = @ \cup {AdminInboxId}],
                        Append(pre, sup)),
                  Quiet(c, Append(pre, Failed(sup)))}
    IN  IF adminAddress = <<>> THEN {Quiet(cv, <<>>)}
        ELSE {[convs |-> cv, eff |-> <<Failed(list)>>, thrown |-> TRUE]} \cup
             (IF HasMember(cv[i], adminAddress)
              THEN Promote(cv, <<list>>)
              ELSE {Quiet(cv, <<list, Failed(add)>>)} \cup
                   UNION {
                     LET c2 == [cv EXCEPT ![i].listed = @ \cup {s}] IN
                     {Quiet(c2, <<list, add, Failed(list)>>)} \cup
                     (IF HasMember(c2[i], adminAddress)
                      THEN Promote(c2, <<list, add, list>>)
                      ELSE {Quiet(c2, <<list, add, list>>)}) :
                     s \in Spellings(adminAddress)})

\* sync, look the group up by name, create it when there is none, set the admin
findOrCreateGroupByNameInternal(cv, groupName, adminAddress, run) ==
    LET sync == Call("sync", "client", "", <<>>)
        list == Call("list", "client", "", <<>>)
        new == Call("newGroup", "client", groupName, <<>>)
        i == findGroupByName(cv, groupName)
        made == Append(cv, Conv(groupName, run))
    IN  {[convs |-> cv, eff |-> <<Failed(sync)>>, thrown |-> TRUE, group |-> 0],
         [convs |-> cv, eff |-> <<sync, Failed(list)>>, thrown |-> TRUE, group |-> 0]} \cup
        (IF i # 0
         THEN {[convs |-> a.convs, eff |-> <<sync, list>> \o a.eff, thrown |-> a.thrown,
                group |-> IF a.thrown THEN 0 ELSE i] :
                 a \in addAdminToGroupInternal(cv, i, adminAddress)}
         ELSE {[convs |-> cv, eff |-> <<sync, list, Failed(new)>>, thrown |-> TRUE,
                group |-> 0]} \cup
              {[convs |-> a.convs, eff |-> <<sync, list, new>> \o a.eff, thrown |-> a.thrown,
                group |-> IF a.thrown THEN 0 ELSE Len(made)] :
                 a \in addAdminToGroupInternal(made, Len(made), adminAddress)})

\* the announcements group, then the social group
findOrCreateBaseSummitGroups(cv, run) ==
    UNION {
        IF a.thrown
        THEN {[convs |-> a.convs, eff |-> a.eff, thrown |-> TRUE, groups |-> NoGroups]}
        ELSE {[convs |-> b.convs, eff |-> a.eff \o b.eff, thrown |-> b.thrown,
               groups |-> IF b.thrown THEN NoGroups
                          ELSE [announcements |-> a.group, social |-> b.group]] :
                b \in findOrCreateGroupByNameInternal(a.convs, "social",
                                                       BASE_SUMMIT_ADMIN_ADDRESS, run)} :
        a \in findOrCreateGroupByNameInternal(cv, "announcements",
                                                BASE_SUMMIT_ADMIN_ADDRESS, run)}

\* the state listenForMessages works on, apart from the calls of the last step
listenVars == <<variant, pc, retryCount, store, members, last, sleeps, stream,
                openFails, now>>

\* the module body: validateEnvironment is called before main is defined
LoadModule ==
    /\ boot = "load"
    /\ LET v == validateEnvironment(env, Required) IN
       IF v.thrown
       THEN /\ boot' = "exited"
            /\ exitStatus' = 1
            /\ output' = Uncaught(v.missing)
       ELSE /\ boot' = "main"
            /\ UNCHANGED <<exitStatus, output>>
    /\ eff' = <<>>
    /\ UNCHANGED <<env, client, convs, groups, runs>>
    /\ UNCHANGED listenVars
    /\ UNCHANGED loopVars

\* a part of main: the calls of plan one after the other, then boot = next
MainStep(from, plan, next) ==
    /\ boot = from
    /\ \E r \in RunSends(plan) :
        /\ eff' = r.eff
        /\ IF r.thrown
           THEN Fatal
           ELSE boot' = next /\ UNCHANGED <<exitStatus, output>>

\* createSigner, getEncryptionKeyFromHex, getDbPath
Prepare ==
    /\ MainStep("main",
                <<Call("createSigner", "viem", "", <<env.WALLET_KEY.value>>),
                  Call("getEncryptionKeyFromHex", "uint8arrays", "",
                       <<env.ENCRYPTION_KEY.value>>),
                  Call("getDbPath", "fs", "", <<env.XMTP_ENV.value>>)>>,
                "create")
    /\ UNCHANGED <<env, client, convs, groups, runs>>
    /\ UNCHANGED listenVars
    /\ UNCHANGED loopVars

\* await Client.create(signer, {env, dbEncryptionKey, dbPath})
CreateClient ==
    /\ MainStep("create", <<Call("Client.create", "xmtp", env.XMTP_ENV.value, <<>>)>>,
                "groups")
    /\ client' = (boot' = "groups")
    /\ UNCHANGED <<env, convs, groups, runs>>
    /\ UNCHANGED listenVars
    /\ UNCHANGED loopVars

\* await findOrCreateBaseSummitGroups(client)
FindGroups ==
    /\ boot = "groups"
    /\ \E r \in findOrCreateBaseSummitGroups(convs, runs) :
        /\ FaultCount(r.eff) <= MaxFaults
        /\ convs' = r.convs
        /\ groups' = r.groups
        /\ eff' = r.eff
        /\ IF r.thrown
           THEN Fatal
           ELSE boot' = "sync" /\ UNCHANGED <<exitStatus, output>>
    /\ UNCHANGED <<env, client, runs>>
    /\ UNCHANGED listenVars
    /\ UNCHANGED loopVars

\* await client.conversations.sync(), then listenForMessages is called
SyncConversations ==
    /\ MainStep("sync", <<Call("sync", "client", "", <<>>)>>, "listening")
    /\ UNCHANGED <<env, client, convs, groups, runs>>
    /\ UNCHANGED listenVars
    /\ UNCHANGED loopVars

\* the process is started again with the same environment and local database
Restart ==
    /\ boot \in {"exited", "listening"}
    /\ runs < MaxRuns
    /\ runs' = runs + 1
    /\ boot' = "load"
    /\ exitStatus' = 0
    /\ output' = NoOutput
    /\ client' = FALSE
    /\ groups' = NoGroups
    /\ eff' = <<>>
    /\ pc' = "connecting"
    /\ retryCount' = 0
    /\ sleeps' = 0
    /\ stream' = "none"
    /\ openFails' = 0
    /\ UNCHANGED <<env, convs, variant, store, members, last, now>>
    /\ UNCHANGED loopVars

\* the local database before the first start
InitConvs ==
    {<<>>, <<Conv("announcements", 0)>>, <<Conv("other", 0), Conv("social", 0)>>,
     <<[Conv("social", 0) EXCEPT !.listed = {toLowerCase(BASE_SUMMIT_ADMIN_ADDRESS)}]>>}

-----------------------------------------------------------------------------
(* listenForMessages *)

NoMembers == [g \in GroupNames |-> {}]

\* src/game.json when the process starts: no round yet, or one open round
\* written by a build whose records have no incorrectGuesses
InitStores == {<<>>, <<Record(<<"x">>, <<"a">>, undefined, 1)>>}

Init ==
    /\ variant \in {"stream", "part1"}
    /\ pc = "connecting"
    /\ retryCount = 0
    /\ store \in InitStores
    /\ members = NoMembers
    /\ last = NoMessage
    /\ eff = <<>>
    /\ sleeps = 0
    /\ stream = "none"
    /\ openFails = 0
    /\ now = 1
    /\ body = <<>>
    /\ trace = <<>>
    /\ seq = 0
    /\ env = [WALLET_KEY |-> Val("0xkey"), ENCRYPTION_KEY |-> Val("hexkey"),
              XMTP_ENV |-> Val("dev")]
    /\ boot = "listening"
    /\ exitStatus = 0
    /\ output = NoOutput
    /\ client = TRUE
    /\ convs = <<WithAdmin(Conv("announcements", 1)), WithAdmin(Conv("social", 1))>>
    /\ groups = [announcements |-> 1, social |-> 2]
    /\ runs = 1

\* the loop condition with <= for <
LoopCondition_le == retryCount <= MAX_RETRIES

\* while (retryCount < MAX_RETRIES)
LoopCondition == retryCount < MAX_RETRIES

\* StreamError without the test before the sleep
StreamError_alwaysSleeps ==
    /\ retryCount' = retryCount + 1
    /\ pc' = "backoff"
    /\ stream' = "error"

\* catch (streamError): retryCount++, then sleep unless the retries are used up
StreamError ==
    /\ retryCount' = retryCount + 1
    /\ pc' = IF retryCount + 1 < MAX_RETRIES THEN "backoff" ELSE "connecting"
    /\ stream' = "error"

\* streamAllMessages() resolves
OpenStream ==
    /\ boot = "listening"
    /\ pc = "connecting"
    /\ LoopCondition
    /\ pc' = "streaming"
    /\ sleeps' = 0
    /\ stream' = "open"
    /\ openFails' = 0
    /\ UNCHANGED <<variant, retryCount, store, members, last, eff, now>>
    /\ UNCHANGED loopVars
    /\ UNCHANGED startVars

\* OpenFails in a loop that does not test the counter
OpenFails_unguarded ==
    /\ boot = "listening"
    /\ pc = "connecting"
    /\ StreamError
    /\ sleeps' = 0
    /\ openFails' = openFails + 1
    /\ UNCHANGED <<variant, store, members, last, eff, now>>
    /\ UNCHANGED loopVars
    /\ UNCHANGED startVars

\* streamAllMessages() rejects
OpenFails ==
    /\ boot = "listening"
    /\ pc = "connecting"
    /\ LoopCondition
    /\ StreamError
    /\ sleeps' = 0
    /\ openFails' = openFails + 1
    /\ UNCHANGED <<variant, store, members, last, eff, now>>
    /\ UNCHANGED loopVars
    /\ UNCHANGED startVars

\* the while condition is false: the function returns
LoopExit ==
    /\ pc = "connecting"
    /\ ~LoopCondition
    /\ pc' = "stopped"
    /\ UNCHANGED <<variant, retryCount, store, members, last, eff, sleeps, stream,
                   openFails, now>>
    /\ UNCHANGED loopVars
    /\ UNCHANGED startVars

\* await sleep(RETRY_DELAY_MS) returns
Backoff ==
    /\ pc = "backoff"
    /\ pc' = "connecting"
    /\ sleeps' = sleeps + RETRY_DELAY_MS
    /\ UNCHANGED <<variant, retryCount, store, members, last, eff, stream, openFails, now>>
    /\ UNCHANGED loopVars
    /\ UNCHANGED startVars

\* HandleMessage that sets retryCount to 0 once a message has been handled
HandleMessage_resets(Msgs) ==
    /\ pc = "streaming"
    /\ \E m \in Msgs :
        /\ ~shouldSkip(m)
        /\ \E r \in Handle(variant, store, members, m) :
            /\ Len(r.store) <= MaxStore
            /\ FaultCount(r.eff) <= MaxFaults
            /\ last' = m
            /\ store' = r.store
            /\ members' = r.members
            /\ eff' = r.eff
            /\ IF Escaped(r.eff)
               THEN StreamError
               ELSE /\ stream' = "flowing"
                    /\ retryCount' = 0
                    /\ UNCHANGED pc
    /\ UNCHANGED <<variant, sleeps, openFails, now>>
    /\ UNCHANGED loopVars
    /\ UNCHANGED startVars

\* the stream yields a message that shouldSkip lets through
HandleMessage(Msgs) ==
    /\ pc = "streaming"
    /\ \E m \in Msgs :
        /\ ~shouldSkip(m)
        /\ \E r \in Handle(variant, store, members, m) :
            /\ Len(r.store) <= MaxStore
            /\ FaultCount(r.eff) <= MaxFaults
            /\ last' = m
            /\ store' = r.store
            /\ members' = r.members
            /\ eff' = r.eff
            /\ IF Escaped(r.eff)
               THEN StreamError
               ELSE /\ stream' = "flowing"
                    /\ UNCHANGED <<pc, retryCount>>
    /\ UNCHANGED <<variant, sleeps, openFails, now>>
    /\ UNCHANGED loopVars
    /\ UNCHANGED startVars

\* the stream yields a message that shouldSkip drops
SkipMessage(Msgs) ==
    /\ pc = "streaming"
    /\ \E m \in Msgs :
        /\ shouldSkip(m)
        /\ last' = m
        /\ eff' = <<>>
    /\ UNCHANGED <<variant, pc, retryCount, store, members, sleeps, stream, openFails, now>>
    /\ UNCHANGED loopVars
    /\ UNCHANGED startVars

\* StreamEnds without retryCount = 0
StreamEnds_noReset ==
    /\ pc = "streaming"
    /\ pc' = "connecting"
    /\ stream' = "clean"
    /\ UNCHANGED <<variant, retryCount, store, members, last, eff, sleeps, openFails, now>>
    /\ UNCHANGED loopVars
    /\ UNCHANGED startVars

\* the stream ends without throwing
StreamEnds ==
    /\ pc = "streaming"
    /\ retryCount' = 0
    /\ pc' = "connecting"
    /\ stream' = "clean"
    /\ UNCHANGED <<variant, store, members, last, eff, sleeps, openFails, now>>
    /\ UNCHANGED loopVars
    /\ UNCHANGED startVars

\* the stream iterator throws
StreamThrows ==
    /\ pc = "streaming"
    /\ StreamError
    /\ UNCHANGED <<variant, store, members, last, eff, sleeps, openFails, now>>
    /\ UNCHANGED loopVars
    /\ UNCHANGED startVars

\* time passes
Tick ==
    /\ now < MaxTime
    /\ now' = now + 1
    /\ UNCHANGED <<variant, pc, retryCount, store, members, last, eff, sleeps, stream,
                   openFails>>
    /\ UNCHANGED loopVars
    /\ UNCHANGED startVars

\* The supervisor with every way the stream can fail, over one message of each
\* kind that leaves the store as it is
Sample ==
    {Text(U1, "dm", M_guess_b), Text(U1, "dm", M_shh_x), Text(U1, "dm", M_hi),
     Text(U1, "group", M_hi)}

Next ==
    \/ OpenStream
    \/ OpenFails
    \/ LoopExit
    \/ Backoff
    \/ HandleMessage(Sample)
    \/ SkipMessage(Skipped)
    \/ StreamEnds
    \/ StreamThrows

Spec == Init /\ [][Next]_vars

\* the supervisor's own steps are taken when they can be: the sleep returns and
\* the function returns once the while condition is false
SpecFair == Spec /\ WF_vars(Backoff) /\ WF_vars(LoopExit)

\* The game: a stream that stays open and delivers the commands
NextGame ==
    \/ OpenStream
    \/ HandleMessage(Commands)

SpecGame == Init /\ [][NextGame]_vars

\* Enrollment: a stream that stays open and delivers no command
NextEnroll ==
    \/ OpenStream
    \/ HandleMessage(Plain)
    \/ SkipMessage(Skipped)

SpecEnroll == Init /\ [][NextEnroll]_vars

\* Routing: one stream that delivers commands and plain messages from direct and
\* group conversations, self-sent and non-text messages included; shouldSkip
\* decides which of them reach the body
Inbox ==
    {Text(U1, "group", M_confess_xa), Text(U1, "dm", M_guess_b), Text(U1, "group", M_shh_x),
     Text(U1, "dm", M_hi), Text(U1, "group", M_hi),
     Text(<<"B">>, "dm", M_hi), Text(<<"B">>, "dm", M_confess_xa),
     [Text(U1, "dm", M_confess_xa) EXCEPT !.typeId = "reaction"],
     NoMessage}

NextRoute ==
    \/ OpenStream
    \/ HandleMessage(Inbox)
    \/ SkipMessage(Inbox)

SpecRoute == Init /\ [][NextRoute]_vars

\* The loop body followed call by call.  Every call of the body is awaited, so
\* the body is a sequence of calls; body holds each running iteration with the
\* store it read (snap), the calls it makes (out.eff) and how many are made (k).

\* the loop with no wait for the body: the next message is taken at once
IterationDone_noAwait == TRUE

\* for await (const message of stream) { ... }: the next message is asked for
\* when the body of the iteration before has run to its end or to a continue
IterationDone == body = <<>>

\* the call writes src/game.json
WritesStore(e) == e.op \in {"checkGuess", "saveConfession"} /\ e.ok

\* the stream yields a message and the body starts on it
Take(Msgs) ==
    /\ pc = "streaming"
    /\ IterationDone
    /\ seq < MaxSeq
    /\ \E m \in Msgs :
        /\ ~shouldSkip(m)
        /\ \E r \in Handle(variant, store, members, m) :
            /\ Len(r.store) <= MaxStore
            /\ FaultCount(r.eff) <= MaxFaults
            /\ body' = Append(body, [n |-> seq + 1, m |-> m, snap |-> store,
                                     out |-> r, k |-> 0])
    /\ seq' = seq + 1
    /\ UNCHANGED <<variant, pc, retryCount, store, members, last, eff, sleeps, stream,
                   openFails, now, trace>>
    /\ UNCHANGED startVars

\* a running body makes its next call and the call settles
Await ==
    /\ \E j \in 1..Len(body) :
        LET b == body[j] IN
        /\ b.k < Len(b.out.eff)
        /\ LET e == b.out.eff[b.k + 1] IN
           /\ store' = IF WritesStore(e) THEN b.out.store ELSE store
           /\ members' = IF e.op = "addMembers" /\ e.ok
                         THEN [members EXCEPT ![e.to] = @ \cup {b.m.sender}]
                         ELSE members
        /\ trace' = Append(trace, b.n)
        /\ body' = [body EXCEPT ![j].k = @ + 1]
    /\ UNCHANGED <<variant, pc, retryCount, last, eff, sleeps, stream, openFails, now, seq>>
    /\ UNCHANGED startVars

\* a running body has made its last call: the iteration is over
Complete ==
    /\ \E j \in 1..Len(body) :
        LET b == body[j] IN
        /\ b.k = Len(b.out.eff)
        /\ last' = b.m
        /\ eff' = b.out.eff
        /\ body' = SubSeq(body, 1, j - 1) \o SubSeq(body, j + 1, Len(body))
    /\ stream' = "flowing"
    /\ UNCHANGED <<variant, pc, retryCount, store, members, sleeps, openFails, now,
                   trace, seq>>
    /\ UNCHANGED startVars

LoopSample ==
    {Text(U1, "dm", M_guess_b), Text(U1, "dm", M_guess_a), Text(U1, "dm", M_confess_xa),
     Text(U2, "dm", M_hi)}

NextLoop ==
    \/ OpenStream
    \/ Take(LoopSample)
    \/ Await
    \/ Complete

SpecLoop == Init /\ [][NextLoop]_vars

\* Startup: the process from the load of the module to the first stream
InitMain ==
    /\ variant \in {"stream", "part1"}
    /\ pc = "connecting"
    /\ retryCount = 0
    /\ store = <<>>
    /\ members = NoMembers
    /\ last = NoMessage
    /\ eff = <<>>
    /\ sleeps = 0
    /\ stream = "none"
    /\ openFails = 0
    /\ now = 1
    /\ body = <<>>
    /\ trace = <<>>
    /\ seq = 0
    /\ env \in EnvChoices
    /\ boot = "load"
    /\ exitStatus = 0
    /\ output = NoOutput
    /\ client = FALSE
    /\ convs \in InitConvs
    /\ groups = NoGroups
    /\ runs = 1

NextMain ==
    \/ LoadModule
    \/ Prepare
    \/ CreateClient
    \/ FindGroups
    \/ SyncConversations
    \/ Restart
    \/ OpenStream

SpecMain == InitMain /\ [][NextMain]_vars

\* The comparison of checkGuess: the guess-limit build, one open record whose
\* answer is one of a few names, and every guess of up to MaxGuessLen characters
GuessLetters == {"a", "A", "b", "@"}

Strings(n) == UNION {[1..k -> GuessLetters] : k \in 1..n}

Answers == {<<"a">>, <<"A">>, <<"b">>, <<"a", "b">>}

GuessInputs == {Text(U1, "dm", S_guess \o <<" ">> \o g) : g \in Strings(MaxGuessLen)}

InitGuess ==
    /\ variant = "stream"
    /\ pc = "connecting"
    /\ retryCount = 0
    /\ store \in {<<Record(<<"x">>, a, 0, 1)>> : a \in Answers}
    /\ members = NoMembers
    /\ last = NoMessage
    /\ eff = <<>>
    /\ sleeps = 0
    /\ stream = "none"
    /\ openFails = 0
    /\ now = 1
    /\ body = <<>>
    /\ trace = <<>>
    /\ seq = 0
    /\ env = [WALLET_KEY |-> Val("0xkey"), ENCRYPTION_KEY |-> Val("hexkey"),
              XMTP_ENV |-> Val("dev")]
    /\ boot = "listening"
    /\ exitStatus = 0
    /\ output = NoOutput
    /\ client = TRUE
    /\ convs = <<WithAdmin(Conv("announcements", 1)), WithAdmin(Conv("social", 1))>>
    /\ groups = [announcements |-> 1, social |-> 2]
    /\ runs = 1

NextGuessing ==
    \/ OpenStream
    \/ HandleMessage(GuessInputs)

SpecGuess == InitGuess /\ [][NextGuessing]_vars

-----------------------------------------------------------------------------
(* Vocabulary of the properties *)

IsGuess(m) == m.defined /\ startsWith(m.content, S_guess)
IsConfess(m) == m.defined /\ ~IsGuess(m) /\ startsWith(m.content, S_confess)

GuessArg(m) == trim(slice(m.content, Len(S_guess)))

\* a step of the for-await loop: the supervisor is streaming before and after
MessageStep == pc = "streaming" /\ pc' = "streaming"

\* the call was issued (whether or not it then threw)
Issued(e, op, to, tag) ==
    \E i \in 1..Len(e) : e[i].op = op /\ e[i].to = to /\ e[i].tag = tag

\* the call was issued and returned
Done(e, op, to) == \E i \in 1..Len(e) : e[i].op = op /\ e[i].to = to /\ e[i].ok

SentTo(e, to) == \E i \in 1..Len(e) : e[i].op = "send" /\ e[i].to = to

OpenRecords(st) == {i \in 1..Len(st) : ~st[i].isComplete}

\* a direct message that is no command
IsPlainDm(m) ==
    /\ m.defined
    /\ m.typeId = "text"
    /\ m.conv = "dm"
    /\ ~startsWith(m.content, S_guess)
    /\ ~startsWith(m.content, S_confess)
    /\ ~startsWith(m.content, S_shh)

AddCalls(e, g) == {i \in 1..Len(e) : e[i].op = "addMembers" /\ e[i].to = g}

\* the conversation of the message was looked up and found
Found(e) == e # <<>> /\ e[1].op = "getConversationById" /\ e[1].tag = "found" /\ e[1].ok

-----------------------------------------------------------------------------
(* C1..C10 *)

\* C1: once a record's isComplete is true, no /guess message changes any field
\* of that record, in either build: a step that handles a /guess leaves every
\* complete record where it was and as it was.
C1_CompleteRecordIsFrozen ==
    [][(MessageStep /\ IsGuess(last')) =>
         \A i \in 1..Len(store) :
            store[i].isComplete => (i <= Len(store') /\ store'[i] = store[i])]_vars

\* a /guess was evaluated against the second record while the first was complete
C1_Witness ==
    /\ IsGuess(last)
    /\ Len(store) = 2
    /\ store[1].isComplete
    /\ Done(eff, "checkGuess", "game.json")
    /\ \/ store[2].incorrectGuesses = 1
       \/ Issued(eff, "send", "conv", "AlreadyGuessed")

\* C2: in the build whose /confess consults hasActiveGame, the store never
\* holds more than one record with isComplete = false, given that it started
\* with at most one.
C2_AtMostOneOpenRecord ==
    variant = "part1" => Cardinality(OpenRecords(store)) <= 1

\* C3: in the build whose /confess consults hasActiveGame, a /confess handled
\* while a record is open gets the active-game reply, sends nothing to the
\* group and leaves the store as it was.
C3_ConfessRejectedWhileOpen ==
    [][(/\ variant = "part1"
        /\ MessageStep
        /\ IsConfess(last')
        /\ Found(eff')
        /\ OpenRecords(store) # {})
       => (/\ Issued(eff', "send", "conv", "ActiveGame")
           /\ ~SentTo(eff', "social")
           /\ store' = store)]_vars

\* the /guess of this step reached checkGuess, whose read and write succeeded
GuessChecked ==
    MessageStep /\ IsGuess(last') /\ Done(eff', "checkGuess", "game.json")

\* C4: in the guess-limit build, with exactly one open record, each wrong /guess
\* adds one to its incorrectGuesses, the record is closed by the fifth wrong
\* guess and by no earlier one, and once no record is open a /guess gets the
\* no-game error and changes nothing.
C4_FiveWrongGuessesCloseTheRecord ==
    [][(variant = "stream" /\ GuessChecked) =>
         /\ OpenRecords(store) = {} =>
               (store' = store /\ Issued(eff', "send", "conv", "NoGameFound"))
         /\ \A i \in 1..Len(store) :
               (/\ OpenRecords(store) = {i}
                /\ ~GuessMatches(store[i].answer, GuessArg(last'))) =>
                  LET n == OrZero(store[i].incorrectGuesses) + 1 IN
                  /\ n <= 5
                  /\ store' = [store EXCEPT ![i].incorrectGuesses = n,
                                            ![i].isComplete = (n = 5)]
                  /\ (n = 5) <=> Issued(eff', "send", "conv", "GameOver")]_vars

\* the fifth wrong guess closed the record and the next /guess found no game
C4_Witness ==
    /\ variant = "stream"
    /\ IsGuess(last)
    /\ OpenRecords(store) = {}
    /\ \E i \in 1..Len(store) : store[i].incorrectGuesses = 5 /\ store[i].isComplete
    /\ Issued(eff, "send", "conv", "NoGameFound")

\* C5: when six attempts in a row to open the stream have failed,
\* listenForMessages returns, and once it has returned nothing happens any
\* more: no stream is opened and no message is handled.
C5_SixOpenFailuresStop ==
    /\ (openFails = 6) ~> (pc = "stopped")
    /\ [][pc # "stopped"]_vars

\* six attempts in a row failed and the function has returned
C5_Witness == pc = "stopped" /\ openFails = 6 /\ sleeps = 0

\* C6: after a stream failure and a successful reopening, the attempt counter
\* is 0 once a message of the new stream has been handled with no failure.
C6_CounterResetOnceMessagesFlow ==
    (stream = "flowing" /\ FaultCount(eff) = 0) => retryCount = 0

\* a step of the loop that took a message from the stream
TookMessage == pc = "streaming" /\ <<last, eff>>' # <<last, eff>>

\* C7: a failure of an external call made while a message is handled never
\* reaches the stream-level handler: no way of handling any message lets an
\* exception out of the loop body, and the step leaves the attempt counter as it
\* was, makes no backoff and stays in the loop over the same stream.
C7_HandlerFailuresStayInTheLoop ==
    /\ [](\A m \in Messages : ~shouldSkip(m) =>
            \A r \in Handle(variant, store, members, m) : ~Escaped(r.eff))
    /\ [][(TookMessage /\ FaultCount(eff') >= 1) =>
            (/\ pc' = "streaming"
             /\ retryCount' = retryCount
             /\ sleeps' = sleeps
             /\ stream' = "flowing")]_vars

\* the handler failed and so did the apology, after an earlier stream failure
C7_Witness ==
    /\ pc = "streaming"
    /\ stream = "flowing"
    /\ retryCount >= 1
    /\ \E i \in 1..Len(eff) : eff[i].tag = "SorryProcessing" /\ ~eff[i].ok

\* C8: when the stream ends without throwing the attempt counter is 0 and the
\* next step is an attempt to open the stream, with no sleep before it; the
\* function returns only after a stream failure.
C8_CleanEndReconnectsAtOnce ==
    /\ [](stream = "clean" => (retryCount = 0 /\ pc = "connecting" /\ sleeps = 0))
    /\ [][stream = "clean" =>
            (/\ sleeps' = 0
             /\ pc' # "stopped"
             /\ stream' = "open" \/ openFails' = openFails + 1)]_vars
    /\ [](pc = "stopped" => stream = "error")

\* a stream that had delivered messages ended without throwing
C8_Witness == stream = "clean" /\ retryCount = 0 /\ last.defined /\ openFails = 0

\* the running body has not written the store yet
NotWritten(b) == \A i \in 1..b.k : ~WritesStore(b.out.eff[i])

\* C9: messages are handled one at a time: at most one body runs, every call
\* made for a message comes before every call made for the next one, and the
\* store a body read is still the store when the body writes it.
C9_OneMessageAtATime ==
    /\ Len(body) <= 1
    /\ \A i \in 1..Len(trace) : \A j \in i..Len(trace) : trace[i] <= trace[j]
    /\ \A j \in 1..Len(body) : NotWritten(body[j]) => body[j].snap = store

\* the body of the second message has written the store and has calls left to
\* make, after the calls of the first message
C9_Witness ==
    /\ Len(body) = 1
    /\ body[1].n = 2
    /\ ~NotWritten(body[1])
    /\ store # body[1].snap
    /\ body[1].k < Len(body[1].out.eff)
    /\ \E i \in 1..Len(trace) : trace[i] = 1

\* the replies that tell the sender they were in group g already
AlreadyReplies(g) ==
    CASE g = "announcements" ->
           {"AddedSocialAlreadyAnnouncements", "AlreadyBoth", "StatusAlreadyAnnouncements"}
      [] g = "social" ->
           {"AddedAnnouncementsAlreadySocial", "AlreadyBoth", "StatusAlreadySocial"}
      [] OTHER -> {"Instructions"}

\* the first reply of the enrollment, "" when there is none
FirstReply(e) ==
    LET S == {i \in 1..Len(e) : e[i].op = "send" /\ e[i].to = "conv"} IN
    IF S = {} THEN "" ELSE e[CHOOSE i \in S : \A j \in S : i <= j].tag

\* C10: when a plain direct message has just added its sender to a group, the
\* next plain direct message of the same sender, whatever the case of the
\* letters of the inbox id, makes no addMembers call to that group and, when
\* the member list could be read, is answered as from a member.
C10_SecondEnrollmentAddsNothing ==
    \A g \in GroupNames :
      (IsPlainDm(last) /\ \E i \in AddCalls(eff, g) : eff[i].ok) =>
        \A m \in Plain :
          (IsPlainDm(m) /\ toLowerCase(m.sender) = toLowerCase(last.sender)) =>
            \A r \in Handle(variant, store, members, m) :
              /\ AddCalls(r.eff, g) = {}
              /\ (Found(r.eff) /\ Done(r.eff, "members", g)) =>
                    FirstReply(r.eff) \in AlreadyReplies(g)

\* the second message came from the same inbox written in another case, found
\* the sender in the member list and added nothing
C10_Witness ==
    /\ IsPlainDm(last)
    /\ \E g \in GroupNames :
         /\ Done(eff, "members", g)
         /\ AddCalls(eff, g) = {}
         /\ last.sender \notin members[g]
         /\ \E x \in members[g] : toLowerCase(x) = toLowerCase(last.sender)
         /\ FirstReply(eff) \in AlreadyReplies(g)

-----------------------------------------------------------------------------
(* C11..C20 *)

\* the step called addMembers or changed a member list
TouchedMembers == members' # members \/ \E g \in GroupNames : AddCalls(eff', g) # {}

MustBeSkipped(m) ==
    \/ ~m.defined
    \/ toLowerCase(m.sender) = toLowerCase(ClientInboxId)
    \/ m.typeId # "text"

\* C12: a message that is undefined, self-sent or not a text is dropped with no
\* effect: no lookup, no send, no membership call, no store access, and the
\* supervisor stays where it was.
C12_SkippedMessagesDoNothing ==
    [][(TookMessage /\ MustBeSkipped(last')) =>
         (/\ eff' = <<>>
          /\ store' = store
          /\ members' = members
          /\ pc' = pc
          /\ retryCount' = retryCount)]_vars

\* a /confess of the client itself, its inbox id in another case, was dropped
\* after a message that had effects
C12_Witness ==
    /\ pc = "streaming"
    /\ last.sender = <<"B">>
    /\ IsConfess(last)
    /\ eff = <<>>
    /\ stream = "flowing"

\* the guess spells the answer, in any case of letters, with or without an '@'
\* in front
Alike(answer, guess) ==
    toLowerCase(answer) =
        toLowerCase(IF guess # <<>> /\ Head(guess) = "@" THEN Tail(guess) ELSE guess)

\* the spellings of the answer a: as it is, in capitals, and each with '@'
SpellingsOfA == {<<"a">>, <<"A">>, <<"@", "a">>, <<"@", "A">>}

\* C13: in the guess-limit build the comparison of a guess with the answer of
\* the open record ignores the case of the letters and an '@' in front of the
\* guess: every such spelling of the answer is a correct guess and closes the
\* record.
C13_GuessIgnoresCaseAndAt ==
    /\ [](variant = "stream" =>
            LET i == FindOpen(store) IN
            (i # 0 /\ toLowerCase(store[i].answer) = <<"a">>) =>
               \A g \in SpellingsOfA :
                  LET r == checkGuess(store, g, "ok") IN
                  r.res.correct /\ r.res.error = "" /\ r.store[i].isComplete)
    /\ [][(/\ variant = "stream"
           /\ GuessChecked
           /\ FindOpen(store) # 0
           /\ Alike(store[FindOpen(store)].answer, GuessArg(last'))) =>
            (/\ store' = [store EXCEPT ![FindOpen(store)].isComplete = TRUE]
             /\ ~Issued(eff', "send", "conv", "WrongGuess")
             /\ ~Issued(eff', "send", "conv", "GameOver"))]_vars

\* the guess @A closed a record whose answer is a
C13_Witness ==
    /\ variant = "stream"
    /\ IsGuess(last)
    /\ GuessArg(last) = <<"@", "A">>
    /\ Issued(eff, "send", "group", "CorrectAnnounce")
    /\ \E i \in 1..Len(store) :
         /\ store[i].isComplete
         /\ store[i].answer = <<"a">>
         /\ OrZero(store[i].incorrectGuesses) < 5
         /\ \A j \in 1..(i - 1) : store[j].isComplete

\* what follows the /confess prefix, and its two parts around the last '@'
ConfessRemainder(m) == trim(slice(m.content, Len(S_confess)))

ConfessText(m) ==
    trim(substring0(ConfessRemainder(m), lastIndexOf(ConfessRemainder(m), "@")))

ConfessName(m) ==
    trim(slice(ConfessRemainder(m), lastIndexOf(ConfessRemainder(m), "@") + 1))

\* the result of a /guess for the name, were it the next message
NextGuess(v, st, name) ==
    IF v = "stream" THEN checkGuess(st, name, "ok") ELSE checkGuess_p1(st, name, "ok")

\* C14: the record a /confess appends has as question the text before the last
\* '@' with no whitespace around it, as answer the name after it, trimmed, and
\* a /guess of that name right after it is correct.
C14_RecordHoldsTrimmedParts ==
    [][(MessageStep /\ IsConfess(last') /\ Len(store') = Len(store) + 1) =>
         LET r == store'[Len(store')] IN
         /\ r.question = ConfessText(last')
         /\ r.answer = ConfessName(last')
         /\ OpenRecords(store) = {} =>
               NextGuess(variant, store', ConfessName(last')).res.correct]_vars

\* a /confess with nothing after the prefix was handled, its conversation was
\* found and no call failed
EmptyConfessHandled ==
    /\ MessageStep
    /\ IsConfess(last')
    /\ ConfessRemainder(last') = <<>>
    /\ Found(eff')
    /\ FaultCount(eff') = 0

\* the tags of the replies sent to the conversation of the message, in order
Replies(e) ==
    LET S == {i \in 1..Len(e) : e[i].op = "send" /\ e[i].to = "conv"}
        F[k \in 0..Len(e)] ==
            IF k = 0 THEN <<>>
            ELSE IF k \in S THEN Append(F[k - 1], e[k].tag) ELSE F[k - 1]
    IN  F[Len(e)]

\* C15 as stated: a /confess with no content is answered with the usage help
\* and leaves the store as it was, whatever the store holds.
C15_EmptyConfessGetsUsage ==
    [][EmptyConfessHandled =>
         (/\ store' = store
          /\ Replies(eff') # <<>>
          /\ Replies(eff')[Len(Replies(eff'))] \in {"ConfessUsage", "FormatHelp"})]_vars

\* C15: a /confess with no content never changes the store and sends nothing
\* to the group; it is answered with the usage help, except that the two-group
\* build answers it with the active-game rejection while a record is open.
C15_EmptyConfessGetsUsageUnlessOpen ==
    [][(MessageStep /\ IsConfess(last') /\ ConfessRemainder(last') = <<>>) =>
         (/\ store' = store
          /\ ~SentTo(eff', GameGroup(variant))
          /\ EmptyConfessHandled =>
               /\ Replies(eff') # <<>>
               /\ Replies(eff')[Len(Replies(eff'))] =
                    IF variant = "stream" THEN "ConfessUsage"
                    ELSE IF OpenRecords(store) # {} THEN "ActiveGame"
                    ELSE "FormatHelp")]_vars

\* the two-group build answered an empty /confess with the rejection, a record
\* being open
C15_Witness ==
    /\ variant = "part1"
    /\ IsConfess(last)
    /\ ConfessRemainder(last) = <<>>
    /\ OpenRecords(store) # {}
    /\ FaultCount(eff) = 0
    /\ Replies(eff) = <<"ActiveGame">>

\* the broadcasts of a new confession and the saveConfession calls among the
\* calls e
Broadcasts(e, g) ==
    {i \in 1..Len(e) : e[i].op = "send" /\ e[i].to = g /\ e[i].tag = "NewConfession"}

Saves(e) == {i \in 1..Len(e) : e[i].op = "saveConfession"}

\* the call after the i-th is the reply tag to the conversation of the message
RepliedNext(e, i, tag) ==
    i < Len(e) /\ e[i + 1].op = "send" /\ e[i + 1].to = "conv" /\ e[i + 1].tag = tag

\* C16: for a /confess the confession is broadcast to the group before the
\* record is appended; when the broadcast throws nothing is appended and the
\* next call is the couldn't-process reply; when the broadcast succeeds and
\* the append fails the store is unchanged and the next call is the
\* failed-to-save reply; the store changes only by a successful append.
C16_BroadcastBeforeAppend ==
    [][(MessageStep /\ IsConfess(last')) =>
         LET e == eff'
             P == Broadcasts(e, GameGroup(variant))
             Q == Saves(e)
         IN  /\ \A q \in Q : \E p \in P : p < q /\ e[p].ok
             /\ \A p \in P : ~e[p].ok =>
                   (Q = {} /\ store' = store /\ RepliedNext(e, p, "SorryConfess"))
             /\ \A q \in Q : ~e[q].ok =>
                   (store' = store /\ RepliedNext(e, q, "FailedToSave"))
             /\ \A q \in Q : e[q].ok =>
                   (Len(store') = Len(store) + 1 /\ RepliedNext(e, q, "Saved"))
             /\ store' # store => \E q \in Q : e[q].ok]_vars

\* the confession was broadcast, the append failed and the sender was told so
C16_Witness ==
    /\ IsConfess(last)
    /\ \E q \in Saves(eff) :
         /\ ~eff[q].ok
         /\ q - 1 \in Broadcasts(eff, GameGroup(variant))
         /\ RepliedNext(eff, q, "FailedToSave")
         /\ eff[q + 1].ok

\* the messages sent while the calls e were made, in order, each as <<to, tag>>
AllSends(e) ==
    LET F[k \in 0..Len(e)] ==
            IF k = 0 THEN <<>>
            ELSE IF e[k].op = "send" THEN Append(F[k - 1], <<e[k].to, e[k].tag>>)
            ELSE F[k - 1]
    IN  F[Len(e)]

GuessErrors == {"NoGameFound", "AlreadyGuessed", "GameOver", "FailedToCheck"}

\* a /guess was handled, its conversation was found and no lookup or send failed
GuessHandled ==
    /\ MessageStep
    /\ IsGuess(last')
    /\ Found(eff')
    /\ \A i \in 1..Len(eff') : ~eff'[i].ok => eff'[i].op = "checkGuess"

\* C17: a /guess has exactly one of four outcomes.  With no argument: the usage
\* help and no store access.  Otherwise checkGuess is called and either the
\* guess is correct (a record is closed, the asker gets the correct-guess
\* message, the group gets the confession and then the announcement), or it is
\* wrong (the asker gets the wrong-guess message first), or there is an error
\* (the asker gets the error text and the group nothing).
C17_GuessOutcomes ==
    [][GuessHandled =>
         LET g == GameGroup(variant)
             sends == AllSends(eff')
             checked == \E i \in 1..Len(eff') : eff'[i].op = "checkGuess"
         IN  IF GuessArg(last') = <<>>
             THEN ~checked /\ store' = store /\ sends = << <<"conv", "GuessUsage">> >>
             ELSE /\ checked
                  /\ \/ /\ sends = << <<"conv", "CorrectGuess">>, <<g, "Confession">>,
                                      <<g, "CorrectAnnounce">> >>
                        /\ store' # store
                     \/ /\ sends # <<>>
                        /\ sends[1] = <<"conv", "WrongGuess">>
                        /\ OpenRecords(store') = OpenRecords(store)
                     \/ /\ Len(sends) = 1
                        /\ sends[1][1] = "conv"
                        /\ sends[1][2] \in GuessErrors]_vars

IsShh(m) ==
    /\ m.defined
    /\ ~startsWith(m.content, S_guess)
    /\ ~startsWith(m.content, S_confess)
    /\ startsWith(m.content, S_shh)

\* the messages sent to g while the calls e were made, in order, each with its
\* text
SendsTo(e, g) ==
    LET F[k \in 0..Len(e)] ==
            IF k = 0 THEN <<>>
            ELSE IF e[k].op = "send" /\ e[k].to = g
                 THEN Append(F[k - 1], <<e[k].tag, e[k].args, e[k].ok>>)
                 ELSE F[k - 1]
    IN  F[Len(e)]

\* what the group can get from a /shh with this content sent by this inbox
ShhGroupSends(sender, conv, content) ==
    {SendsTo(r.eff, GameGroup(variant)) :
        r \in Handle(variant, store, members, Text(sender, conv, content))}

\* C18: what /shh sends to the group depends on the relayed text only: the same
\* /shh from two different inboxes gives the same group messages, the message
\* relayed carries the trimmed text and nothing else, and every other message
\* of the command goes to the conversation the /shh came from.
C18_ShhIsAnonymous ==
    /\ [](\A c \in {M_shh_x, S_shh} : \A conv \in {"dm", "group"} :
            ShhGroupSends(U1, conv, c) = ShhGroupSends(<<"b", "u">>, conv, c))
    /\ [][(MessageStep /\ IsShh(last')) =>
            \A i \in 1..Len(eff') :
               eff'[i].op = "send" =>
                  \/ /\ eff'[i].to = GameGroup(variant)
                     /\ eff'[i].tag = "Relay"
                     /\ eff'[i].args = <<trim(slice(last'.content, 4))>>
                  \/ eff'[i].to = "conv"]_vars

\* a /shh was relayed to the group and confirmed to its sender
C18_Witness ==
    /\ IsShh(last)
    /\ \E i \in 1..(Len(eff) - 1) :
         /\ eff[i].tag = "Relay"
         /\ eff[i].to = GameGroup(variant)
         /\ eff[i].ok
         /\ eff[i].args = <<<<"x">>>>
         /\ eff[i + 1].tag = "Relayed"
         /\ eff[i + 1].to = "conv"
         /\ eff[i + 1].ok

\* the soft error checkGuess returns from its catch
SoftError == [correct |-> FALSE, confession |-> <<>>, error |-> "FailedToCheck"]

\* C19: a failure to read, parse or write the game file inside hasActiveGame,
\* saveConfession or checkGuess comes back as a value (false, or correct false
\* with an error text) which the handler answers; nothing is thrown, and after
\* a failed read the store is exactly as it was.
C19_StoreFailuresAreValues ==
    /\ [](/\ ~hasActiveGame(store, "readFail")
          /\ \A io \in {"readFail", "writeFail"} :
               /\ ~saveConfession(store, <<"x">>, <<"a">>, now, io).saved
               /\ ~saveConfession_p1(store, <<"x">>, <<"a">>, now, io).saved
          /\ saveConfession(store, <<"x">>, <<"a">>, now, "readFail").store = store
          /\ saveConfession_p1(store, <<"x">>, <<"a">>, now, "readFail").store = store
          /\ \A g \in {<<"a">>, <<"b">>} :
               /\ checkGuess(store, g, "readFail") = [store |-> store, res |-> SoftError]
               /\ checkGuess_p1(store, g, "readFail") = [store |-> store, res |-> SoftError])
    /\ [][MessageStep =>
            \A i \in 1..Len(eff') :
               (eff'[i].to = "game.json" /\ ~eff'[i].ok) =>
                  /\ ~Escaped(eff')
                  /\ (eff'[i].tag = "readFail" /\ eff'[i].op # "hasActiveGame") =>
                        store' = store
                  /\ eff'[i].op = "checkGuess" => RepliedNext(eff', i, "FailedToCheck")
                  /\ eff'[i].op = "saveConfession" => RepliedNext(eff', i, "FailedToSave")
                  /\ eff'[i].op = "hasActiveGame" =>
                        (i < Len(eff') /\ eff'[i + 1].tag \in {"NewConfession", "FormatHelp"})]_vars

\* the file could not be read inside checkGuess and the asker was told so, the
\* store keeping its record
C19_Witness ==
    /\ IsGuess(last)
    /\ store # <<>>
    /\ \E i \in 1..Len(eff) :
         /\ eff[i].op = "checkGuess"
         /\ eff[i].tag = "readFail"
         /\ ~eff[i].ok
         /\ RepliedNext(eff, i, "FailedToCheck")
    /\ pc = "streaming"

\* C20: the store is an append-only log: its length never decreases; the
\* question, answer and timestamp of a record never change; only a /guess
\* changes isComplete or incorrectGuesses of a record, and only a /confess adds
\* one, which comes last and is open; isComplete never goes back to false and
\* incorrectGuesses never decreases.
C20_StoreIsAppendOnly ==
    [][/\ Len(store') >= Len(store)
       /\ Len(store') <= Len(store) + 1
       /\ \A i \in 1..Len(store) :
            /\ store'[i].question = store[i].question
            /\ store'[i].answer = store[i].answer
            /\ store'[i].timestamp = store[i].timestamp
            /\ store[i].isComplete => store'[i].isComplete
            /\ OrZero(store'[i].incorrectGuesses) >= OrZero(store[i].incorrectGuesses)
            /\ store'[i] # store[i] => IsGuess(last')
       /\ Len(store') > Len(store) =>
            (IsConfess(last') /\ ~store'[Len(store')].isComplete)]_vars

\* a log of two rounds: the first closed by wrong guesses, the second appended
\* after it and guessed at
C20_Witness ==
    /\ Len(store) = 2
    /\ store[1].isComplete
    /\ store[1].incorrectGuesses >= 1
    /\ store[2].timestamp = now
    /\ \/ store[2].isComplete
       \/ store[2].incorrectGuesses >= 1

-----------------------------------------------------------------------------
(* C21..C30 *)

\* C21: in the one-group guess-limit build a /confess handled while a record is
\* open is rejected: it appends nothing, so the store never holds two records
\* with isComplete = false.
C21_OneGroupBuildKeepsOneOpenRecord ==
    /\ [](variant = "stream" => Cardinality(OpenRecords(store)) <= 1)
    /\ [][(variant = "stream" /\ MessageStep /\ IsConfess(last') /\ OpenRecords(store) # {})
            => store' = store]_vars

\* the confirmations that tell the sender they were added to group g
AddedReplies(g) ==
    CASE g = "announcements" ->
           {"AddedBoth", "AddedAnnouncementsAlreadySocial", "AddedAnnouncementsTriedSocial"}
      [] g = "social" ->
           {"AddedBoth", "AddedSocialAlreadyAnnouncements", "AddedSocialTriedAnnouncements"}
      [] OTHER -> {"YouveBeenAdded"}

\* a call to group g failed while the calls e were made
FailedAt(e, g) ==
    \E i \in 1..Len(e) : e[i].op \in {"members", "addMembers"} /\ e[i].to = g /\ ~e[i].ok

\* a plain direct message reached the two-group enrollment
Enrolled_p1 == variant = "part1" /\ MessageStep /\ IsPlainDm(last') /\ Found(eff')

\* C22: in the two-group enrollment each group is evaluated whatever happened
\* with the other one, and a group whose member list could not be read, or to
\* which the sender could not be added, is named in the confirmation neither as
\* added nor as already joined.
C22_GroupFailuresAreIsolated ==
    [][Enrolled_p1 =>
         \A g \in {"announcements", "social"} :
            /\ Issued(eff', "members", g, "")
            /\ FailedAt(eff', g) =>
                  /\ FirstReply(eff') \notin AddedReplies(g)
                  /\ FirstReply(eff') \notin AlreadyReplies(g)
                  /\ members'[g] = members[g]]_vars

\* the announcements group failed, the sender was added to the social group
\* and told so
C22_Witness ==
    /\ variant = "part1"
    /\ IsPlainDm(last)
    /\ FailedAt(eff, "announcements")
    /\ \E i \in AddCalls(eff, "social") : eff[i].ok
    /\ last.sender \in members["social"]
    /\ last.sender \notin members["announcements"]
    /\ FirstReply(eff) = "AddedSocialTriedAnnouncements"

\* what the enrollment itself sent to the conversation of the message, in
\* order, with the outcome of each send; the apology of the catch block is not
\* part of it
EnrollSends(e) ==
    LET F[k \in 0..Len(e)] ==
            IF k = 0 THEN <<>>
            ELSE IF e[k].op = "send" /\ e[k].to = "conv" /\ e[k].tag # "SorryProcessing"
                 THEN Append(F[k - 1], <<e[k].tag, e[k].ok>>)
                 ELSE F[k - 1]
    IN  F[Len(e)]

\* a plain direct message reached the enrollment of either build
Enrolled == MessageStep /\ IsPlainDm(last') /\ Found(eff')

\* the sender was added to the group by this step
AddedTo(e, g) == \E i \in AddCalls(e, g) : e[i].ok

\* C23 as stated: every enrollment sends exactly one message to the conversation
\* it came from, and that message is not empty.
C23_OneMessagePerEnrollment ==
    [][Enrolled => /\ Len(EnrollSends(eff')) = 1
                   /\ EnrollSends(eff')[1][1] # ""]_vars

\* C23: every enrollment sends its confirmation exactly once, first, and never
\* empty; the two-group build sends nothing else, and the one-group build sends
\* the instructions as a second message exactly when the sender was added by
\* this message and the confirmation went out.
C23_OneConfirmationPerEnrollment ==
    [][Enrolled =>
         LET R == EnrollSends(eff') IN
         /\ Len(R) >= 1
         /\ R[1][1] \notin {"", "SorryProcessing"}
         /\ \A k \in 2..Len(R) : R[k][1] # R[1][1]
         /\ IF variant = "stream" /\ AddedTo(eff', "group") /\ R[1][2]
            THEN /\ Len(R) = 2
                 /\ R[1][1] = "YouveBeenAdded"
                 /\ R[2][1] = "Instructions"
            ELSE Len(R) = 1]_vars

\* in the one-group build a new member got the confirmation and then the
\* instructions
C23_Witness ==
    /\ variant = "stream"
    /\ IsPlainDm(last)
    /\ AddedTo(eff, "group")
    /\ last.sender \in members["group"]
    /\ EnrollSends(eff) = <<<<"YouveBeenAdded", TRUE>>, <<"Instructions", TRUE>>>>

\* the required variables that are absent or empty
MissingVars ==
    {v \in {"WALLET_KEY", "ENCRYPTION_KEY", "XMTP_ENV"} : ~env[v].set \/ env[v].value = ""}

\* C24: while WALLET_KEY, ENCRYPTION_KEY or XMTP_ENV is absent or empty the
\* process gets no further than the load of the module: no client is created
\* and no stream is opened, and once it has ended its status is not zero and its
\* error output names every missing variable and no other.
C24_StartupNeedsTheThreeVariables ==
    MissingVars # {} =>
        /\ boot \in {"load", "exited"}
        /\ ~client
        /\ pc = "connecting" /\ stream = "none"
        /\ \A i \in 1..Len(eff) : eff[i].op # "Client.create"
        /\ boot = "exited" =>
              /\ exitStatus # 0
              /\ output.by # ""
              /\ {output.names[i] : i \in 1..Len(output.names)} = MissingVars
              /\ Len(output.names) = Cardinality(MissingVars)

\* WALLET_KEY is set to the empty string and XMTP_ENV is absent: the process has
\* ended naming the two
C24_Witness ==
    /\ env.WALLET_KEY = Val("")
    /\ env.ENCRYPTION_KEY = Val("hexkey")
    /\ env.XMTP_ENV = Unset
    /\ boot = "exited"
    /\ exitStatus = 1
    /\ output.names = <<"WALLET_KEY", "XMTP_ENV">>
    /\ ~client

\* the oldest open record: the lowest place in the store with isComplete false
OldestOpen(st) == CHOOSE i \in OpenRecords(st) : \A j \in OpenRecords(st) : i <= j

\* C25: a /guess is evaluated against the oldest open record: whatever else is
\* open, no other record changes, and a guess that spells the answer of the
\* oldest open record closes that record.
C25_GuessGoesToOldestOpen ==
    [][(GuessChecked /\ OpenRecords(store) # {}) =>
         LET o == OldestOpen(store) IN
         /\ Len(store') = Len(store)
         /\ \A j \in 1..Len(store) : j # o => store'[j] = store[j]
         /\ toLowerCase(store[o].answer) = toLowerCase(GuessArg(last')) =>
               store'[o].isComplete]_vars

\* C26: in the guess-limit build a wrong /guess adds one to incorrectGuesses of
\* the oldest open record and to nothing else.  While the count so far is below
\* 4 the record stays open and the asker is told the guess is wrong, the
\* confession text going back to the group; the wrong guess that makes the count
\* 5 closes the record and the asker gets the game-over text, the group nothing.
\* A record starts at 0, so between its /confess and its closing the count is
\* the number of wrong guesses made.
C26_WrongGuessesAreCounted ==
    /\ [][(variant = "stream" /\ GuessChecked /\ OpenRecords(store) # {}) =>
            LET o == OldestOpen(store)
                n == OrZero(store[o].incorrectGuesses)
            IN  ~Alike(store[o].answer, GuessArg(last')) =>
                  /\ n < 4 =>
                       /\ store' = [store EXCEPT ![o].incorrectGuesses = n + 1]
                       /\ ~store'[o].isComplete
                       /\ Issued(eff', "send", "conv", "WrongGuess")
                       /\ ~Issued(eff', "send", "conv", "GameOver")
                       /\ \A i \in 1..Len(eff') :
                             (eff'[i].op = "send" /\ eff'[i].tag = "Confession") =>
                                eff'[i].args = <<store[o].question>>
                  /\ n = 4 =>
                       /\ store' = [store EXCEPT ![o].incorrectGuesses = 5,
                                                 ![o].isComplete = TRUE]
                       /\ Issued(eff', "send", "conv", "GameOver")
                       /\ ~SentTo(eff', "group")]_vars
    /\ [][(variant = "stream" /\ MessageStep /\ IsConfess(last')
           /\ Len(store') = Len(store) + 1) =>
            store'[Len(store')].incorrectGuesses = 0]_vars

\* three wrong guesses were counted on the older of two open records, the third
\* one just now, and none on the other
C26_Witness ==
    /\ variant = "stream"
    /\ IsGuess(last)
    /\ Issued(eff, "send", "conv", "WrongGuess")
    /\ OpenRecords(store) = {1, 2}
    /\ store[1].incorrectGuesses = 3
    /\ store[2].incorrectGuesses = 0

\* the remainder of the /confess has no '@', or nothing but whitespace before
\* or after its last '@'
BadFormat(m) ==
    \/ lastIndexOf(ConfessRemainder(m), "@") = 0 - 1
    \/ ConfessText(m) = <<>>
    \/ ConfessName(m) = <<>>

\* C27: a /confess that gets as far as the parsing is split at the last '@' of
\* its remainder: the text before it, trimmed, is the confession that is
\* broadcast and stored as question, the text after it, trimmed, is stored as
\* answer; with no '@' or an empty part nothing goes to the group, the store
\* stays as it was and the reply is the format help.
C27_ConfessIsSplitAtLastAt ==
    [][(/\ MessageStep
        /\ IsConfess(last')
        /\ Found(eff')
        /\ ~Issued(eff', "send", "conv", "ActiveGame")) =>
         IF BadFormat(last')
         THEN /\ store' = store
              /\ ~SentTo(eff', GameGroup(variant))
              /\ FaultCount(eff') = 0 =>
                    /\ Replies(eff') # <<>>
                    /\ Replies(eff')[Len(Replies(eff'))] \in {"ConfessUsage", "FormatHelp"}
         ELSE /\ \A i \in 1..Len(eff') :
                    (eff'[i].op = "send" /\ eff'[i].tag = "NewConfession") =>
                       eff'[i].args = <<ConfessText(last')>>
              /\ Len(store') = Len(store) + 1 =>
                    /\ store'[Len(store')].question = ConfessText(last')
                    /\ store'[Len(store')].answer = ConfessName(last')]_vars

\* the listed conversations with this name, and the newGroup calls for it
Named(cv, n) == {i \in 1..Len(cv) : cv[i].name = n}
NewGroupCalls(e, n) == {i \in 1..Len(e) : e[i].op = "newGroup" /\ e[i].tag = n}

\* C28: the lookup-or-create of a group is idempotent by name.  A group is
\* created only when no listed conversation has the name, at most one per call;
\* when one has it, newGroup is not called and the first conversation of that
\* name is the group returned.  So this client never creates a second group of
\* a name, however often the process is started on the same database.
C28_GroupsAreCreatedOnce ==
    /\ [](\A n \in {"announcements", "social"} :
            /\ Cardinality({i \in Named(convs, n) : convs[i].run > 0}) <= 1
            /\ (\E i \in Named(convs, n) : convs[i].run = 0) =>
                  \A i \in Named(convs, n) : convs[i].run = 0)
    /\ [][boot = "groups" =>
            \A n \in {"announcements", "social"} :
               /\ Len(convs') >= Len(convs)
               /\ \A i \in 1..Len(convs) : convs'[i].name = convs[i].name
               /\ Cardinality(NewGroupCalls(eff', n)) <= 1
               /\ Cardinality(Named(convs', n)) <= Cardinality(Named(convs, n)) + 1
               /\ Named(convs, n) # {} =>
                     /\ NewGroupCalls(eff', n) = {}
                     /\ Named(convs', n) = Named(convs, n)
                     /\ boot' = "sync" =>
                           /\ groups'[n] \in Named(convs, n)
                           /\ \A j \in Named(convs, n) : groups'[n] <= j]_vars

\* the second start of the process found the two groups its first start had
\* created, and created none
C28_Witness ==
    /\ runs = 2
    /\ boot = "sync"
    /\ Len(convs) = 2
    /\ convs[1].run = 1 /\ convs[2].run = 1
    /\ groups = [announcements |-> 1, social |-> 2]
    /\ \A i \in 1..Len(eff) : eff[i].op # "newGroup"

\* this step attempts to open the stream
OpenAttempt == pc = "connecting" /\ (pc' = "streaming" \/ openFails' = openFails + 1)

\* C29: retryCount stays within 0..6, the stream is opened, or tried to be, only
\* while it is below 6, and once it is 6 the one step left is the return of
\* listenForMessages, which leaves it at 6.
C29_CounterStaysWithinSix ==
    /\ [](retryCount \in 0..6)
    /\ [](retryCount = 6 => pc \in {"connecting", "stopped"})
    /\ [][OpenAttempt => retryCount < 6]_vars
    /\ [][retryCount = 6 => (pc' = "stopped" /\ retryCount' = 6)]_vars

\* six stream errors, none of them a failure to open the last stream, and the
\* function has returned
C29_Witness ==
    /\ pc = "stopped"
    /\ retryCount = 6
    /\ openFails = 0
    /\ stream = "error"
    /\ last.defined

\* C30: a stream error that leaves the counter below 6 is followed by one sleep
\* of RETRY_DELAY_MS, and only then by the next attempt to open the stream; an
\* attempt after anything else than a stream error follows no sleep.  The error
\* that brings the counter to 6 is followed by no sleep and by no attempt.
C30_OneSleepPerStreamError ==
    /\ [](pc = "backoff" => (retryCount < 6 /\ stream = "error" /\ sleeps = 0))
    /\ [][OpenAttempt =>
            sleeps = (IF stream = "error" THEN RETRY_DELAY_MS ELSE 0)]_vars
    /\ [][(stream' = "error" /\ retryCount' = retryCount + 1) =>
            pc' = (IF retryCount' < 6 THEN "backoff" ELSE "connecting")]_vars
    /\ [][retryCount = 6 => (sleeps' = sleeps /\ ~OpenAttempt)]_vars

\* the second stream error, thrown by a stream that had delivered a message,
\* was followed by one sleep and the next attempt is due
C30_Witness ==
    /\ retryCount = 2
    /\ stream = "error"
    /\ pc = "connecting"
    /\ sleeps = RETRY_DELAY_MS
    /\ openFails = 0
    /\ last.defined

-----------------------------------------------------------------------------
(* C31..C39 *)

\* the step closed the oldest open record as guessed: isComplete set, the count
\* of wrong guesses as it was
ClosedAsGuessed ==
    store' = [store EXCEPT ![OldestOpen(store)].isComplete = TRUE]

\* C31: checkGuess finds a guess correct exactly when the guess, without one
\* '@' in front, spells the answer in any case of letters; an '@' anywhere else
\* in the guess is kept and makes it differ from the answer.
C31_OnlyLeadingAtIsStripped ==
    [][(variant = "stream" /\ GuessChecked /\ OpenRecords(store) # {}) =>
         (ClosedAsGuessed <=>
            Alike(store[OldestOpen(store)].answer, GuessArg(last')))]_vars

\* the calls made before the catch block of the loop body took over
UptoCatch(e) ==
    LET S == {i \in 1..Len(e) : e[i].op = "getConversationById" /\ e[i].tag = "error"} IN
    IF S = {} THEN e ELSE SubSeq(e, 1, (CHOOSE i \in S : \A j \in S : i <= j) - 1)

\* what handling the message can do, up to the catch block
Outcomes(v, st, mem, m) ==
    {[r EXCEPT !.eff = UptoCatch(r.eff)] : r \in Handle(v, st, mem, m)}

CommandTexts ==
    {M_guess_a, M_guess_b, S_guess, M_confess_xa, M_confess_noat, M_confess_none,
     M_shh_x, S_shh}

\* a text that is no command, from a group conversation
IsPlainGroup(m) ==
    /\ m.defined
    /\ m.typeId = "text"
    /\ m.conv = "group"
    /\ ~startsWith(m.content, S_guess)
    /\ ~startsWith(m.content, S_confess)
    /\ ~startsWith(m.content, S_shh)

\* C32: the command prefixes are tested before the conversation is tested for
\* being a group: a /guess, /confess or /shh from a group conversation does, up
\* to the catch block, exactly what the same message from a direct conversation
\* does, while a text from a group conversation that is no command makes no
\* send, no membership call and no store access.
C32_CommandsRunInGroupsToo ==
    /\ [](\A c \in CommandTexts : \A u \in {U1, U2} :
            Outcomes(variant, store, members, Text(u, "group", c)) =
                Outcomes(variant, store, members, Text(u, "dm", c)))
    /\ [][(TookMessage /\ IsPlainGroup(last')) =>
            /\ store' = store
            /\ members' = members
            /\ \A i \in 1..Len(eff') : eff'[i].op = "getConversationById"]_vars
    /\ [][(TookMessage /\ last'.conv = "group" /\ IsConfess(last') /\ Found(eff')
           /\ FaultCount(eff') = 0 /\ ~BadFormat(last')
           /\ (variant = "part1" => OpenRecords(store) = {})) =>
            /\ Len(store') = Len(store) + 1
            /\ Issued(eff', "send", GameGroup(variant), "NewConfession")]_vars

\* a /confess that came from a group conversation was broadcast and stored as
\* the second record
C32_Witness ==
    /\ last = Text(U1, "group", M_confess_xa)
    /\ Issued(eff, "send", GameGroup(variant), "NewConfession")
    /\ Issued(eff, "send", "conv", "Saved")
    /\ Len(store) = 2
    /\ ~store[2].isComplete

\* this step is a stream error: the stream could not be opened, or it threw
ErrorStep == stream' = "error" /\ (pc = "streaming" \/ openFails' = openFails + 1)

\* C33: stream errors add up across the messages handled in between: each one
\* adds one to the attempt counter, handling a message leaves the counter as it
\* is, and only a clean end of the stream lowers it.  So with the sixth error
\* since the last clean end the counter is 6 and listenForMessages returns,
\* however many streams were opened and messages handled in between.
C33_ErrorsAddUpAcrossMessages ==
    /\ [][ErrorStep => retryCount' = retryCount + 1]_vars
    /\ [][TookMessage => retryCount' = retryCount]_vars
    /\ [][retryCount' < retryCount => (stream' = "clean" /\ retryCount' = 0)]_vars
    /\ [][(~ErrorStep /\ stream' # "clean") => retryCount' = retryCount]_vars
    /\ (retryCount = 6) ~> (pc = "stopped")

\* five stream errors have added up, each followed by a stream that opened, and
\* a message of the sixth stream has just been handled with no failure
C33_Witness ==
    /\ pc = "streaming"
    /\ stream = "flowing"
    /\ retryCount = 5
    /\ openFails = 0
    /\ last.defined
    /\ eff # <<>>
    /\ FaultCount(eff) = 0

\* the stores that differ from st in the answer of one record at most
OtherAnswers == {<<"a">>, <<"A">>, <<"b">>, <<"z">>}

AnswerVariants(st) ==
    {[st EXCEPT ![i].answer = a] : i \in 1..Len(st), a \in OtherAnswers}

\* the store without its answers
Erase(st) == [i \in 1..Len(st) |-> [st[i] EXCEPT !.answer = <<>>]]

\* everything handling the message can do: the calls it makes, with what is
\* sent, and what it leaves behind apart from the answers
Visible(v, st, mem, m) ==
    {<<r.eff, Erase(r.store), r.members>> : r \in Handle(v, st, mem, m)}

\* the guess of the message, if it is one, is right in both stores or in neither
SameVerdict(v, st1, st2, m) ==
    (IsGuess(m) /\ GuessArg(m) # <<>>) =>
        NextGuess(v, st1, GuessArg(m)).res.correct =
            NextGuess(v, st2, GuessArg(m)).res.correct

SecretSample ==
    {Text(U1, "dm", c) : c \in {M_guess_a, M_guess_A, M_guess_b, M_confess_xa, M_shh_x, M_hi}}

\* C34: the answer of a record is never sent out.  Take the store and any
\* store that differs from it in the answer of one record: a message whose
\* guess, if it is one, is right in both or wrong in both makes the same calls
\* and sends the same messages in both, and leaves two stores that again differ
\* in answers only.
C34_AnswerIsNeverSent ==
    \A m \in SecretSample : \A st2 \in AnswerVariants(store) :
        SameVerdict(variant, store, st2, m) =>
            Visible(variant, store, members, m) = Visible(variant, st2, members, m)

\* a wrong guess was announced to the group with the confession, while the
\* answer of the open record could have been another one with the same verdict
C34_Witness ==
    /\ last = Text(U1, "dm", M_guess_b)
    /\ \E i \in 1..Len(eff) : eff[i].tag = "WrongAnnounce" /\ eff[i].ok
    /\ \E i \in 1..Len(eff) : eff[i].tag = "Confession" /\ eff[i].ok
    /\ \E st2 \in AnswerVariants(store) :
          /\ st2 # store
          /\ SameVerdict(variant, store, st2, last)

\* the guess of the message spells the answer of the latest record
RightGuess_p1(st, m) ==
    /\ IsGuess(m)
    /\ st # <<>>
    /\ toLowerCase(st[Len(st)].answer) = toLowerCase(GuessArg(m))

\* C35: in the two-group build, while a record is open, a message that is no
\* correct guess leaves the store as it was, so the record stays open, and a
\* /confess is rejected: nothing of it goes to the group and nothing is saved.
C35_OpenRoundOutlastsWrongGuesses ==
    [][(/\ variant = "part1"
        /\ MessageStep
        /\ OpenRecords(store) # {}
        /\ ~RightGuess_p1(store, last')) =>
         /\ store' = store
         /\ IsConfess(last') =>
               /\ ~SentTo(eff', "social")
               /\ ~Issued(eff', "send", "conv", "Saved")]_vars

\* C36: in the guess-limit build the count of wrong guesses of a record is
\* within 0..5, within 0..4 while the record is open, and a record whose count
\* is 5 is complete (a record without the field counts as 0).
C36_CountStaysWithinLimit ==
    variant = "stream" =>
        \A i \in 1..Len(store) :
            LET n == OrZero(store[i].incorrectGuesses) IN
            /\ n \in 0..5
            /\ ~store[i].isComplete => n \in 0..4
            /\ n = 5 => store[i].isComplete

\* the first record was closed by its fifth wrong guess and the second, saved
\* while the first was open, has four wrong guesses and is open
C36_Witness ==
    /\ variant = "stream"
    /\ Len(store) = 2
    /\ store[1].incorrectGuesses = 5 /\ store[1].isComplete
    /\ store[2].incorrectGuesses = 4 /\ ~store[2].isComplete
    /\ IsGuess(last)

\* the call of fn on the game file was issued and failed
StoreFailed(e, fn) ==
    \E i \in 1..Len(e) : e[i].op = fn /\ e[i].to = "game.json" /\ ~e[i].ok

\* C37: in the two-group build, a well-formed /confess whose hasActiveGame call
\* cannot read the game file is not rejected: its confession is sent to the
\* group, and when the save that follows fails as well the store stays as it
\* was and the sender is sent the failed-to-save reply, whether or not a record
\* was open.
C37_UnreadableFileLetsConfessThrough ==
    [][(/\ variant = "part1"
        /\ MessageStep
        /\ IsConfess(last')
        /\ Found(eff')
        /\ ~BadFormat(last')
        /\ StoreFailed(eff', "hasActiveGame")) =>
         /\ ~Issued(eff', "send", "conv", "ActiveGame")
         /\ Issued(eff', "send", "social", "NewConfession")
         /\ StoreFailed(eff', "saveConfession") =>
               /\ store' = store
               /\ Issued(eff', "send", "conv", "FailedToSave")
               /\ ~Issued(eff', "send", "conv", "Saved")]_vars

\* a record was open, the read of hasActiveGame failed, the confession went
\* to the group, the save failed and the sender was told so
C37_Witness ==
    /\ variant = "part1"
    /\ IsConfess(last)
    /\ ~BadFormat(last)
    /\ OpenRecords(store) # {}
    /\ StoreFailed(eff, "hasActiveGame")
    /\ Done(eff, "send", "social")
    /\ StoreFailed(eff, "saveConfession")
    /\ \E i \in 1..Len(eff) :
          eff[i].op = "send" /\ eff[i].tag = "FailedToSave" /\ eff[i].ok

\* the replies that tell the sender no more than that something failed
GenericReplies == {"SorryGuess", "SorryProcessing"}

\* checkGuess returned and the first send after it is the one that opens the
\* notifications of a correct guess
ToldRight(e) ==
    \E k \in 1..(Len(e) - 1) :
        /\ e[k].op = "checkGuess" /\ e[k].ok
        /\ \A j \in 1..(k - 1) : e[j].op # "send"
        /\ e[k + 1].op = "send"
        /\ e[k + 1].tag \in {"CorrectGuess", "Confession"}

\* one of the notifications of the guess threw
NoticeFailed(e) ==
    \E i \in 1..Len(e) : e[i].op = "send" /\ ~e[i].ok /\ e[i].tag \notin GenericReplies

\* the step closed one open record and changed nothing else
ClosedOne ==
    \E i \in OpenRecords(store) : store' = [store EXCEPT ![i].isComplete = TRUE]

\* the latest record was closed by a correct guess: no confession was saved
\* since
RoundGuessed(st) ==
    /\ st # <<>>
    /\ st[Len(st)].isComplete
    /\ OrZero(st[Len(st)].incorrectGuesses) < GUESS_LIMIT

\* a guess checked after the round was guessed changes nothing and is told the
\* round is over or that there is no game
LaterGuessesAreTurnedAway ==
    (GuessChecked /\ RoundGuessed(store)) =>
        /\ store' = store
        /\ \/ Issued(eff', "send", "conv", "AlreadyGuessed")
           \/ Issued(eff', "send", "conv", "NoGameFound")

\* C38 as stated: a correct guess closes its record before the first
\* notification and the record is closed whether or not a notification then
\* fails; when one fails the sender of the guess is sent the generic failure
\* reply and no other message reaches them; a guess checked afterwards is told the round is over
\* or that there is no game.
C38_ClosureIsNotRolledBack ==
    [][/\ (MessageStep /\ IsGuess(last') /\ ToldRight(eff')) =>
            /\ ClosedOne
            /\ NoticeFailed(eff') =>
                  /\ Issued(eff', "send", "conv", "SorryGuess")
                  /\ \A i \in 1..Len(eff') :
                        (eff'[i].op = "send" /\ eff'[i].to = "conv" /\ eff'[i].ok) =>
                            eff'[i].tag \in GenericReplies
       /\ LaterGuessesAreTurnedAway]_vars

\* C38, amended: as above, but in the two-group build the sender of the guess
\* has been sent the correct-guess message before the generic failure reply
\* when it was a send to the group that failed.
C38_ClosureOutlastsFailedSends ==
    [][/\ (MessageStep /\ IsGuess(last') /\ ToldRight(eff')) =>
            /\ ClosedOne
            /\ NoticeFailed(eff') =>
                  /\ Issued(eff', "send", "conv", "SorryGuess")
                  /\ \A i \in 1..Len(eff') :
                        (eff'[i].op = "send" /\ eff'[i].to = "conv" /\ eff'[i].ok) =>
                            \/ eff'[i].tag \in GenericReplies
                            \/ /\ variant = "part1"
                               /\ eff'[i].tag = "CorrectGuess"
                               /\ \E j \in (i + 1)..Len(eff') :
                                     eff'[j].op = "send" /\ eff'[j].to = "social"
                                       /\ ~eff'[j].ok
       /\ LaterGuessesAreTurnedAway]_vars

\* in the two-group build the sender was sent the correct-guess message, the
\* send of the confession to the group failed, the record is complete and the
\* sender was sent the failure reply
C38_Witness ==
    /\ variant = "part1"
    /\ IsGuess(last)
    /\ ToldRight(eff)
    /\ \E i \in 1..Len(eff) :
          eff[i].op = "send" /\ eff[i].tag = "CorrectGuess" /\ eff[i].ok
    /\ \E i \in 1..Len(eff) :
          eff[i].op = "send" /\ eff[i].to = "social" /\ ~eff[i].ok
    /\ \E i \in 1..Len(eff) :
          eff[i].op = "send" /\ eff[i].tag = "SorryGuess" /\ eff[i].ok
    /\ RoundGuessed(store)

\* the calls of op on the group named n
SetupCalls(e, op, n) == {k \in 1..Len(e) : e[k].op = op /\ e[k].to = n}

\* the group the lookup by name finds lists the admin's address, in any case of
\* letters, among its members
AdminListed(cv, n) ==
    \E i \in Named(cv, n) :
        /\ \A j \in Named(cv, n) : i <= j
        /\ \E x \in cv[i].listed :
              toLowerCase(x) = toLowerCase(BASE_SUMMIT_ADMIN_ADDRESS)

\* that group has the admin's inbox id among its super admins
AdminIsSuper(cv, n) ==
    \E i \in Named(cv, n) :
        /\ \A j \in Named(cv, n) : i <= j
        /\ AdminInboxId \in cv[i].superAdmins

\* C39: the admin setup of a group calls addMembersByIdentifiers at most once and
\* not when the admin's address is listed among the members in any case of
\* letters, calls addSuperAdmin at most once and not when the admin's inbox id
\* is a super admin already, and a setup in which nothing but these two calls
\* fails throws nothing: both groups are returned and startup goes on.
C39_AdminSetupIsIdempotent ==
    [][boot = "groups" =>
         /\ \A n \in {"announcements", "social"} :
               /\ Cardinality(SetupCalls(eff', "addMembersByIdentifiers", n)) <= 1
               /\ Cardinality(SetupCalls(eff', "addSuperAdmin", n)) <= 1
               /\ AdminListed(convs, n) =>
                     SetupCalls(eff', "addMembersByIdentifiers", n) = {}
               /\ AdminIsSuper(convs, n) =>
                     SetupCalls(eff', "addSuperAdmin", n) = {}
               /\ (AdminListed(convs, n) /\ AdminIsSuper(convs, n)) =>
                     \A i \in Named(convs, n) : convs'[i] = convs[i]
         /\ (\A k \in 1..Len(eff') :
                ~eff'[k].ok => eff'[k].op \in {"addMembersByIdentifiers", "addSuperAdmin"}) =>
               /\ boot' = "sync"
               /\ groups'.announcements \in Named(convs', "announcements")
               /\ groups'.social \in Named(convs', "social")]_vars

\* at the second start both groups list the admin in small letters and get no
\* addMembersByIdentifiers call; the first has the admin as super admin and gets
\* no addSuperAdmin call, the addSuperAdmin call of the second fails and startup
\* goes on
C39_Witness ==
    /\ runs = 2
    /\ boot = "sync"
    /\ \A n \in {"announcements", "social"} :
          /\ SetupCalls(eff, "members", n) # {}
          /\ SetupCalls(eff, "addMembersByIdentifiers", n) = {}
          /\ AdminListed(convs, n)
          /\ \A i \in Named(convs, n) : BASE_SUMMIT_ADMIN_ADDRESS \notin convs[i].listed
    /\ SetupCalls(eff, "addSuperAdmin", "announcements") = {}
    /\ AdminIsSuper(convs, "announcements")
    /\ \E k \in SetupCalls(eff, "addSuperAdmin", "social") : ~eff[k].ok
    /\ ~AdminIsSuper(convs, "social")

=============================================================================
